---------------------------- MODULE Spec2Model ----------------------------
(***************************************************************************)
(* State-machine model of the MLB hitter-vs-stadium projection program:    *)
(*   src/stadiums.py       the STADIUM_DATA registry and its accessors     *)
(*   src/hitter_data.py    get_hitter_bip_stats, get_hitter_summary_stats  *)
(*   src/visualization.py  calculate_expected_home_runs,                   *)
(*                         calculate_expected_stats_for_stadium,           *)
(*                         calculate_xba_from_ev_la                        *)
(*   src/comparison.py     calculate_stadium_match_score                   *)
(*   src/interactive.py    main, get_stadium_selection                     *)
(*                                                                         *)
(* Number encodings (the program computes in IEEE doubles; the model       *)
(* computes the same quantities exactly, as scaled integers):              *)
(*   angles            millidegrees            (45 degrees   = 45000)      *)
(*   hit distances     half feet, "X2"         (232.5 ft     = 465)        *)
(*   fence distances   1/30000 ft, "X30000"    (the code's t has the       *)
(*                     denominators 15 and 30 and the angle the factor     *)
(*                     1000, so every fence distance is such an integer)   *)
(*   park_factor       hundredths              (1.08         = 108)        *)
(*   xBA, xSLG         1/9000 and 1/18000      (0.5          = 4500)       *)
(*   a missing value (NaN / None) is the sentinel NaN                      *)
(* A Python dict is a function from its keys (strings) to its values.      *)
(***************************************************************************)
EXTENDS Integers, Sequences, FiniteSets, TLC

VARIABLES
    STADIUM_DATA,    \* the module-level registry of src/stadiums.py
    statcast_data,   \* rows the provider returns for the player (pyb.statcast_batter)
    columns,         \* the column names of that frame
    pc,              \* position of the caller
    choice,          \* the latest input read by get_stadium_selection
    stadium_name,    \* main's stadium_name
    stadium_info,    \* the stadium dict handed to the calculations
    bip_data,        \* get_hitter_bip_stats' result
    hit_distances,   \* calculate_expected_home_runs' local of that name (half feet)
    angles,          \* calculate_expected_home_runs' local of that name
    fence_distances, \* calculate_expected_home_runs' local of that name
    reached,         \* the array of line 504: hit_distances >= fence_distances
    home_runs,       \* calculate_expected_home_runs' result
    expected_stats,  \* calculate_expected_stats_for_stadium's result
    xba_values,      \* calculate_expected_stats_for_stadium's local of that name (1/9000)
    xslg_values,     \* calculate_expected_stats_for_stadium's local of that name (1/18000)
    hitter_stats,    \* get_hitter_summary_stats' result, calculate_stadium_match_score's argument
    match_scores,    \* calculate_stadium_match_score's result
    comparisons_df,  \* the table handed to get_best_stadium_matches
    hitter_name,     \* get_best_stadium_matches' hitter_name
    top_n,           \* the top_n argument (NaN for None)
    best_matches,    \* get_best_stadium_matches' result
    stadium_rankings, \* get_stadium_rankings' result
    flight_args,     \* height_at_distance's arguments and the stadium's altitude
    flight,          \* the integration's state x, y, vx, vy
    ball_height,     \* height_at_distance's result
    player_id,       \* compare_hitter_to_all_stadiums' player_id
    player_name,     \* compare_hitter_to_all_stadiums' player_name
    comparisons,     \* compare_hitter_to_all_stadiums' result
    all_hitters,     \* what get_all_hitters returns (pyb.batting_stats)
    statcast_of,     \* the rows the provider returns for each player
    min_pa,          \* compare_all_hitters_to_stadiums' min_pa
    hitters,         \* compare_all_hitters_to_stadiums' local of that name
    position,        \* the row of hitters the loop of line 149 is at
    processing,      \* the player_ids in the order the loop took them
    all_comparisons  \* compare_all_hitters_to_stadiums' local of that name

locals == <<hit_distances, angles, fence_distances, reached>>

stats_locals == <<xba_values, xslg_values>>

ranking == <<comparisons_df, hitter_name, top_n, best_matches, stadium_rankings>>

trajectory == <<flight_args, flight, ball_height>>

comparing == <<player_id, player_name, comparisons>>

batch == <<all_hitters, statcast_of, min_pa, hitters, position, processing,
           all_comparisons>>

vars == <<STADIUM_DATA, statcast_data, columns, pc, choice, stadium_name,
          stadium_info, bip_data, hit_distances, angles, fence_distances,
          reached, home_runs, xba_values, xslg_values, expected_stats,
          hitter_stats, match_scores, comparisons_df, hitter_name, top_n,
          best_matches, stadium_rankings, flight_args, flight, ball_height,
          player_id, player_name, comparisons, all_hitters, statcast_of,
          min_pa, hitters, position, processing, all_comparisons>>

----------------------------------------------------------------------------
(* Values                                                                  *)

\* numpy's NaN / Python's None: a value no field of the model otherwise takes.
NaN == -999999

IsNaN(v) == v = NaN

\* dict.get(key, default)
Get(d, k, default) == IF k \in DOMAIN d THEN d[k] ELSE default

EmptyDict == [k \in {} |-> 0]

\* Python's None where a dict is expected: a value that is no dict of the program
None == [k \in {"<None>"} |-> "None"]

Abs(n) == IF n < 0 THEN -n ELSE n

\* np.clip(v, lo, hi); NaN stays NaN
Clip(v, lo, hi) == IF IsNaN(v) THEN NaN ELSE IF v < lo THEN lo ELSE IF v > hi THEN hi ELSE v

\* Exact fractions <<numerator, denominator>> in lowest terms, denominator > 0,
\* for the program's non-integer results.  NaNRat is a float NaN, NoneRat is
\* Python's None where a number is expected.
RECURSIVE GCD(_, _)
GCD(a, b) == IF b = 0 THEN Abs(a) ELSE GCD(b, a % b)

NaNRat == <<0, 0>>

NoneRat == <<0, -1>>

IsNaNRat(p) == p = NaNRat

IsNoneRat(p) == p = NoneRat

IsNumber(p) == p[2] > 0

Rat(n, d) ==
    IF d = 0 THEN NaNRat
    ELSE LET g  == GCD(Abs(n), Abs(d))
             sg == IF d < 0 THEN -1 ELSE 1
         IN  <<sg * (n \div g), sg * (d \div g)>>

RatInt(n) == <<n, 1>>

RatMul(p, q) == IF ~IsNumber(p) \/ ~IsNumber(q) THEN NaNRat ELSE Rat(p[1] * q[1], p[2] * q[2])

RatAdd(p, q) ==
    IF ~IsNumber(p) \/ ~IsNumber(q) THEN NaNRat
    ELSE Rat(p[1] * q[2] + q[1] * p[2], p[2] * q[2])

RatSub(p, q) == RatAdd(p, RatMul(RatInt(-1), q))

\* p > q, p >= q as floats compare: False when either is NaN
RatGt(p, q) == IsNumber(p) /\ IsNumber(q) /\ p[1] * q[2] > q[1] * p[2]

RatGe(p, q) == IsNumber(p) /\ IsNumber(q) /\ p[1] * q[2] >= q[1] * p[2]

\* Python's truth value of a number or None: False for None and for zero,
\* True for every other number and for NaN
Truthy(p) == ~IsNoneRat(p) /\ (IsNaNRat(p) \/ p[1] # 0)

\* Python's max(0, p): 0 unless p > 0
PyMax0(p) == IF RatGt(p, RatInt(0)) THEN p ELSE RatInt(0)

Min2(a, b) == IF a <= b THEN a ELSE b

Max2(a, b) == IF a >= b THEN a ELSE b

RECURSIVE SumSeq(_)
SumSeq(s) == IF s = <<>> THEN 0 ELSE Head(s) + SumSeq(Tail(s))

\* boolean-mask indexing a[mask]: the elements whose index satisfies the mask, in order
RECURSIVE MaskFrom(_, _, _)
MaskFrom(s, mask, i) ==
    IF i > Len(s) THEN <<>>
    ELSE (IF mask[i] THEN <<s[i]>> ELSE <<>>) \o MaskFrom(s, mask, i + 1)

Mask(s, mask) == MaskFrom(s, mask, 1)

----------------------------------------------------------------------------
(* src/stadiums.py                                                         *)

\* Three of the registry's thirty records, in registry order, with every key
\* of the source (park_factor in hundredths).
STADIUM_NAMES == <<"Yankee Stadium", "Fenway Park", "Coors Field">>

STADIUM_DATA_AT_LOAD ==
    ("Yankee Stadium" :>
        [team |-> "NYY", city |-> "New York", state |-> "NY",
         left_field |-> 318, left_center |-> 399, center_field |-> 408,
         right_center |-> 385, right_field |-> 314, park_factor |-> 95,
         altitude |-> 0]) @@
    ("Fenway Park" :>
        [team |-> "BOS", city |-> "Boston", state |-> "MA",
         left_field |-> 310, left_center |-> 379, center_field |-> 390,
         right_center |-> 420, right_field |-> 302, park_factor |-> 108,
         altitude |-> 0]) @@
    ("Coors Field" :>
        [team |-> "COL", city |-> "Denver", state |-> "CO",
         left_field |-> 347, left_center |-> 390, center_field |-> 415,
         right_center |-> 375, right_field |-> 350, park_factor |-> 130,
         altitude |-> 5280])

\* STADIUM_DATA.get(stadium_name, None)
get_stadium_info(registry, name) ==
    IF name \in DOMAIN registry THEN registry[name] ELSE None

\* the rows of get_stadium_dataframe(): one per registry record, in registry
\* order, the record's name in the column stadium_name
get_stadium_dataframe(registry) ==
    [i \in 1..Len(STADIUM_NAMES) |->
        ("stadium_name" :> STADIUM_NAMES[i]) @@ registry[STADIUM_NAMES[i]]]

----------------------------------------------------------------------------
(* src/visualization.py: calculate_expected_home_runs                      *)

\* np.degrees(np.arctan(2^-(i-1))) in millidegrees, i = 1, 2, ...
ArctanTable ==
    <<45000, 26565, 14036, 7125, 3576, 1790, 895, 448, 224, 112, 56, 28, 14,
      7, 3, 2, 1>>

RECURSIVE Pow2(_)
Pow2(n) == IF n = 0 THEN 1 ELSE 2 * Pow2(n - 1)

\* Rotates (u, v) onto the axis v = 0 by the table's angles and adds up the
\* rotation: the angle of (u, v) from the u axis, to a few millidegrees, and
\* exactly for v = 0 and for v = u or v = -u.
RECURSIVE Cordic(_, _, _, _)
Cordic(u, v, z, i) ==
    IF v = 0 \/ i > Len(ArctanTable) THEN z
    ELSE IF v > 0
         THEN Cordic(u + v \div Pow2(i - 1), v - u \div Pow2(i - 1),
                     z + ArctanTable[i], i + 1)
         ELSE Cordic(u - v \div Pow2(i - 1), v + u \div Pow2(i - 1),
                     z - ArctanTable[i], i + 1)

\* np.degrees(np.arctan2(x, y)) for y > 0, in millidegrees: 0 is straight
\* center, positive is right field, negative is left field
arctan2_degrees(x, y) == Cordic(y * 1024, x * 1024, 0, 1)

\* the angle of line 478 for coordinates x = d*sin(s), y = d*cos(s) (line
\* 469-470): s itself brought into (-180, 180] when d > 0; for d = 0 both
\* coordinates are signed zeros and arctan2 gives 0 or +-180 by their signs
spray_direction(hitX2, spray) ==
    IF IsNaN(spray) \/ IsNaN(hitX2) THEN NaN
    ELSE LET n == spray % 360000
             s == IF Abs(spray) <= 180000 THEN spray
                  ELSE IF n > 180000 THEN n - 360000 ELSE n
         IN  IF hitX2 > 0 THEN s
             ELSE IF Abs(s) <= 90000 THEN 0
             ELSE IF s > 0 THEN 180000 ELSE -180000

\* lines 485-501: the fence distance at one angle, times 30000
fence_distance(angle, left_field, center_field, right_field) ==
    IF IsNaN(angle) THEN NaN
    ELSE IF angle <= -30000
    THEN \* t = (angle + 45) / 15;  left + (center - left) * (1 - t)
         30000 * left_field + 2 * (center_field - left_field) * (-30000 - angle)
    ELSE IF angle >= 30000
    THEN \* t = (angle - 30) / 15;  center + (right - center) * t
         30000 * center_field + 2 * (right_field - center_field) * (angle - 30000)
    ELSE IF angle < 0
    THEN \* t = (angle + 30) / 30;  left + (center - left) * (1 + t)
         30000 * left_field + (center_field - left_field) * (60000 + angle)
    ELSE \* t = (30 - angle) / 30;  right + (center - right) * (1 + t)
         30000 * right_field + (center_field - right_field) * (60000 - angle)

\* line 504 with > for >=
reaches_fence_strictly_beyond(hitX2, fenceX30000) ==
    IF IsNaN(hitX2) \/ IsNaN(fenceX30000) THEN FALSE
    ELSE hitX2 * 15000 > fenceX30000

\* line 504 with its operands exchanged
reaches_fence_operands_exchanged(hitX2, fenceX30000) ==
    IF IsNaN(hitX2) \/ IsNaN(fenceX30000) THEN FALSE
    ELSE fenceX30000 >= hitX2 * 15000

\* line 504: hit_distances >= fence_distances, elementwise (False on NaN)
reaches_fence(hitX2, fenceX30000) ==
    IF IsNaN(hitX2) \/ IsNaN(fenceX30000) THEN FALSE
    ELSE hitX2 * 15000 >= fenceX30000

\* lines 438-450: the hit distance of every row, in half feet; <<>> stands
\* for the early "return 0" of line 450
hit_distances_of(bip, cols) ==
    IF "hit_distance_sc" \in cols
    THEN [i \in 1..Len(bip) |->
            IF IsNaN(bip[i].hit_distance_sc) THEN 0 ELSE 2 * bip[i].hit_distance_sc]
    ELSE [i \in 1..Len(bip) |->
            IF IsNaN(bip[i].launch_speed) \/ IsNaN(bip[i].launch_angle) THEN NaN
            ELSE Clip(5 * bip[i].launch_speed
                      + 10 * (12 - Abs(bip[i].launch_angle - 10)), 100, 900)]

\* line 460: valid = (hc_x > 0) & (hc_y > 0) & (hc_x <= 250) & (hc_y <= 250)
valid_coordinates(bip, cols) ==
    [i \in 1..Len(bip) |->
        /\ "hc_x" \in cols /\ "hc_y" \in cols
        /\ ~IsNaN(bip[i].hc_x) /\ ~IsNaN(bip[i].hc_y)
        /\ bip[i].hc_x > 0 /\ bip[i].hc_y > 0
        /\ bip[i].hc_x <= 250 /\ bip[i].hc_y <= 250]

any_valid(bip, cols) == \E i \in 1..Len(bip) : valid_coordinates(bip, cols)[i]

\* lines 452-478 with the spray angle tried before the coordinates
angles_of_spray_angle_first(bip, cols) ==
    LET hit   == hit_distances_of(bip, cols)
        valid == valid_coordinates(bip, cols)
    IN  IF "spray_angle" \in cols /\ ~any_valid(bip, cols)
        THEN [i \in 1..Len(bip) |-> spray_direction(hit[i], bip[i].spray_angle)]
        ELSE IF "spray_angle" \in cols
        THEN Mask([i \in 1..Len(bip) |-> spray_direction(hit[i], bip[i].spray_angle)],
                  valid)
        ELSE IF any_valid(bip, cols)
        THEN Mask([i \in 1..Len(bip) |->
                     IF valid[i]
                     THEN arctan2_degrees(5 * (bip[i].hc_x - 125), 5 * bip[i].hc_y)
                     ELSE NaN], valid)
        ELSE [i \in 1..Len(bip) |-> IF IsNaN(hit[i]) THEN NaN ELSE 0]

\* lines 452-478: the angle of every row that is kept, in row order.  With
\* at least one valid hc_x/hc_y pair only the rows with valid pairs are kept.
angles_of(bip, cols) ==
    LET hit   == hit_distances_of(bip, cols)
        valid == valid_coordinates(bip, cols)
    IN  IF any_valid(bip, cols)
        THEN Mask([i \in 1..Len(bip) |->
                     IF valid[i]
                     THEN arctan2_degrees(5 * (bip[i].hc_x - 125), 5 * bip[i].hc_y)
                     ELSE NaN], valid)
        ELSE IF "spray_angle" \in cols
        THEN [i \in 1..Len(bip) |-> spray_direction(hit[i], bip[i].spray_angle)]
        ELSE [i \in 1..Len(bip) |-> IF IsNaN(hit[i]) THEN NaN ELSE 0]

\* line 464: hit_distances = hit_distances[valid]
kept_hit_distances(bip, cols) ==
    IF any_valid(bip, cols)
    THEN Mask(hit_distances_of(bip, cols), valid_coordinates(bip, cols))
    ELSE hit_distances_of(bip, cols)

\* lines 434-436 (and src/comparison.py, lines 41-43): the stadium's
\* dimensions, with the defaults of a record that lacks them
left_field_of(stadium) == Get(stadium, "left_field", 330)

\* line 435 with the default of line 434
center_field_of_left_default(stadium) == Get(stadium, "center_field", 330)

\* line 435 with the fence pushed back by the stadium's altitude
center_field_of_plus_altitude(stadium) ==
    Get(stadium, "center_field", 400) + Get(stadium, "altitude", 0) \div 100

center_field_of(stadium) == Get(stadium, "center_field", 400)

right_field_of(stadium) == Get(stadium, "right_field", 330)

\* lines 483-501
fence_distances_of(bip, cols, stadium) ==
    LET angle == angles_of(bip, cols)
    IN  [i \in 1..Len(angle) |->
            fence_distance(angle[i], left_field_of(stadium),
                           center_field_of(stadium), right_field_of(stadium))]

\* line 464 applied to the rows themselves: the rows hit_distances, angles
\* and fence_distances speak of, in their order
kept_rows(bip, cols) ==
    IF any_valid(bip, cols) THEN Mask(bip, valid_coordinates(bip, cols)) ELSE bip

\* line 504 before its sum
reached_of(bip, cols, stadium) ==
    LET hit   == kept_hit_distances(bip, cols)
        fence == fence_distances_of(bip, cols, stadium)
    IN  [i \in 1..Len(hit) |-> reaches_fence(hit[i], fence[i])]

\* lines 430-431 and 447-450: the returns before any distance is looked at
returns_early(bip, cols) ==
    \/ Len(bip) = 0
    \/ "hit_distance_sc" \notin cols
          /\ ~("launch_angle" \in cols /\ "launch_speed" \in cols)

\* line 504 with the array's size for its sum
calculate_expected_home_runs_size(bip, cols, stadium) ==
    IF returns_early(bip, cols) THEN 0
    ELSE Len(reached_of(bip, cols, stadium))

calculate_expected_home_runs(bip, cols, stadium) ==
    IF returns_early(bip, cols) THEN 0
    ELSE LET home_run == reached_of(bip, cols, stadium)
         IN  SumSeq([i \in 1..Len(home_run) |-> IF home_run[i] THEN 1 ELSE 0])

----------------------------------------------------------------------------
(* src/visualization.py: expected statistics                               *)

\* calculate_xba_from_ev_la without the clip of line 359
calculate_xba_from_ev_la_unclipped_angle(ev, la) ==
    IF IsNaN(ev) \/ IsNaN(la) THEN NaN
    ELSE 900 + 4 * Clip(ev - 70, 0, 30) * (30 - Abs(la - 10))

\* calculate_xba_from_ev_la for one event, times 9000:
\* 0.1 + 0.4 * clip((ev - 70)/30, 0, 1) * clip(1 - |la - 10|/30, 0, 1)
calculate_xba_from_ev_la(ev, la) ==
    IF IsNaN(ev) \/ IsNaN(la) THEN NaN
    ELSE 900 + 4 * Clip(ev - 70, 0, 30) * Clip(30 - Abs(la - 10), 0, 30)

\* Series.fillna(v)
fillna(v, default) == IF IsNaN(v) THEN default ELSE v

\* .mean() of values that are multiples of 1/scale; NaN if one of them is NaN
Mean(values, scale) ==
    IF \E i \in 1..Len(values) : IsNaN(values[i]) THEN NaNRat
    ELSE Rat(SumSeq(values), scale * Len(values))

\* lines 525-534 without the measured columns: the heuristic for every row
xba_values_of_heuristic_only(bip, cols) ==
    [i \in 1..Len(bip) |->
        calculate_xba_from_ev_la(bip[i].launch_speed, bip[i].launch_angle)]

\* lines 525-534: the xBA of every row, times 9000
xba_values_of(bip, cols) ==
    IF "estimated_ba_using_speedangle" \in cols
    THEN [i \in 1..Len(bip) |-> fillna(bip[i].estimated_ba_using_speedangle, 2700)]
    ELSE IF "xba" \in cols
    THEN [i \in 1..Len(bip) |-> fillna(bip[i].xba, 2700)]
    ELSE [i \in 1..Len(bip) |->
            calculate_xba_from_ev_la(bip[i].launch_speed, bip[i].launch_angle)]

\* lines 536-541: the xSLG of every row, times 18000
xslg_values_of(bip, cols) ==
    IF "estimated_slg_using_speedangle" \in cols
    THEN [i \in 1..Len(bip) |-> fillna(bip[i].estimated_slg_using_speedangle, 7200)]
    ELSE LET xba == xba_values_of(bip, cols)
         IN  [i \in 1..Len(bip) |-> IF IsNaN(xba[i]) THEN NaN ELSE 3 * xba[i]]

\* line 549 counting every labelled event: bip_data['events'].notna().sum()
actual_home_runs_any_label(bip) ==
    SumSeq([i \in 1..Len(bip) |-> IF bip[i].events = "" THEN 0 ELSE 1])

\* line 549: (bip_data['events'] == 'home_run').sum()
actual_home_runs(bip) ==
    SumSeq([i \in 1..Len(bip) |-> IF bip[i].events = "home_run" THEN 1 ELSE 0])

\* line 523 (and src/comparison.py, line 32)
park_factor_of(stadium) == Rat(Get(stadium, "park_factor", 100), 100)

\* line 566 with the whole park factor, as line 567 has it
park_adjusted_ba_of_whole_factor(mean_xba, park_factor) ==
    RatMul(mean_xba, park_factor)

\* line 566: xba_values.mean() * (1 + (park_factor - 1) * 0.1)
park_adjusted_ba_of(mean_xba, park_factor) ==
    RatMul(mean_xba,
           RatAdd(RatInt(1), RatMul(RatSub(park_factor, RatInt(1)), Rat(1, 10))))

\* line 545 as a percentage
expected_hr_rate_of_percent(expected_hr_count, bip) ==
    Rat(100 * expected_hr_count, Len(bip))

\* line 545: expected_hr_count / len(bip_data)
expected_hr_rate_of(expected_hr_count, bip) == Rat(expected_hr_count, Len(bip))

\* lines 523-568: the statistics of a frame that has rows
expected_stats_of(bip, cols, stadium) ==
         LET park_factor == park_factor_of(stadium)
             mean_xba    == Mean(xba_values_of(bip, cols), 9000)
             mean_xslg   == Mean(xslg_values_of(bip, cols), 18000)
             expected_hr_count == calculate_expected_home_runs(bip, cols, stadium)
             actual_hr_count ==
                 IF "events" \in cols THEN actual_home_runs(bip) ELSE 0
         IN  [expected_ba       |-> mean_xba,
              expected_slg      |-> mean_xslg,
              expected_ops      |-> RatAdd(mean_xba, mean_xslg),
              expected_hr_count |-> expected_hr_count,
              expected_hr_rate  |-> expected_hr_rate_of(expected_hr_count, bip),
              actual_hr_count   |-> actual_hr_count,
              actual_hr_rate    |->
                  IF "events" \in cols THEN Rat(actual_hr_count, Len(bip))
                  ELSE RatInt(0),
              total_bip         |-> Len(bip),
              park_factor       |-> park_factor,
              park_adjusted_ba  |-> park_adjusted_ba_of(mean_xba, park_factor),
              park_adjusted_slg |-> RatMul(mean_xslg, park_factor)]

\* without the guard of lines 520-521
calculate_expected_stats_for_stadium_unguarded(bip, cols, stadium) ==
    expected_stats_of(bip, cols, stadium)

calculate_expected_stats_for_stadium(bip, cols, stadium) ==
    IF Len(bip) = 0 THEN EmptyDict ELSE expected_stats_of(bip, cols, stadium)

----------------------------------------------------------------------------
(* src/hitter_data.py                                                      *)

\* lines 121-125 without the launch_angle test of line 124
is_ball_in_play_any_launch_angle(row) ==
    /\ row.type = "X"
    /\ ~IsNaN(row.launch_speed)

\* lines 121-125: a ball in play with launch speed and launch angle present
is_ball_in_play(row) ==
    /\ row.type = "X"
    /\ ~IsNaN(row.launch_speed)
    /\ ~IsNaN(row.launch_angle)

\* get_hitter_bip_stats: the provider's rows filtered; the empty frame when
\* the provider has none or a column of the filter is missing (the KeyError
\* is caught, line 129)
get_hitter_bip_stats(statcast, cols) ==
    IF Len(statcast) = 0 THEN <<>>
    ELSE IF ~({"type", "launch_speed", "launch_angle"} \subseteq cols) THEN <<>>
    ELSE SelectSeq(statcast, is_ball_in_play)

\* Series.mean(): the mean of the values that are not NaN, NaN if there are none
MeanSkipNaN(values) ==
    LET present == SelectSeq(values, LAMBDA v : ~IsNaN(v))
    IN  Rat(SumSeq(present), Len(present))

RECURSIVE MaxSeq(_)
MaxSeq(s) == IF Len(s) = 1 THEN s[1] ELSE Max2(s[1], MaxSeq(Tail(s)))

\* (condition).sum() / len(bip): the share of TRUE in a boolean column
Rate(flags) ==
    Rat(SumSeq([i \in 1..Len(flags) |-> IF flags[i] THEN 1 ELSE 0]), Len(flags))

\* get_hitter_summary_stats of a frame get_hitter_bip_stats returned
\* (player_id and year, which it passes through, are left out)
get_hitter_summary_stats(bip, cols) ==
    IF Len(bip) = 0 THEN None
    ELSE [total_bip         |-> Len(bip),
          avg_exit_velocity |-> MeanSkipNaN([i \in 1..Len(bip) |-> bip[i].launch_speed]),
          max_exit_velocity |-> MaxSeq([i \in 1..Len(bip) |-> bip[i].launch_speed]),
          avg_launch_angle  |-> MeanSkipNaN([i \in 1..Len(bip) |-> bip[i].launch_angle]),
          barrel_rate       |->
              IF "barrel" \in cols THEN Rate([i \in 1..Len(bip) |-> bip[i].barrel = 1]) ELSE NoneRat,
          hard_hit_rate     |-> Rate([i \in 1..Len(bip) |-> bip[i].launch_speed >= 95]),
          pull_rate         |->
              IF "bb_type" \in cols THEN Rate([i \in 1..Len(bip) |-> bip[i].bb_type = "pull"])
              ELSE NoneRat,
          oppo_rate         |->
              IF "bb_type" \in cols THEN Rate([i \in 1..Len(bip) |-> bip[i].bb_type = "oppo"])
              ELSE NoneRat,
          home_run_rate     |->
              IF "events" \in cols THEN Rate([i \in 1..Len(bip) |-> bip[i].events = "home_run"])
              ELSE NoneRat,
          avg_distance      |->
              IF "hit_distance_sc" \in cols
              THEN MeanSkipNaN([i \in 1..Len(bip) |-> bip[i].hit_distance_sc])
              ELSE NoneRat]

----------------------------------------------------------------------------
(* src/comparison.py                                                       *)

\* lines 51-56 without the max(0, ...) of line 54
distance_score_of_unfloored(avg_distance, hard_hit_rate, min_dimension, park_factor) ==
    IF Truthy(avg_distance)
    THEN RatMul(RatMul(RatSub(avg_distance, RatInt(min_dimension)), Rat(1, 50)),
                park_factor)
    ELSE IF Truthy(hard_hit_rate) THEN RatMul(hard_hit_rate, park_factor)
    ELSE RatInt(0)

\* lines 51-56
distance_score_of(avg_distance, hard_hit_rate, min_dimension, park_factor) ==
    IF Truthy(avg_distance)
    THEN RatMul(PyMax0(RatMul(RatSub(avg_distance, RatInt(min_dimension)),
                              Rat(1, 50))),
                park_factor)
    ELSE IF Truthy(hard_hit_rate) THEN RatMul(hard_hit_rate, park_factor)
    ELSE RatInt(0)

\* lines 59-64 without the factor 20 of line 63
overall_score_of_unscaled_park_factor(ev_score, hard_hit_score, distance_score, park_factor) ==
    RatAdd(RatAdd(RatMul(ev_score, Rat(3, 10)),
                  RatMul(hard_hit_score, Rat(3, 10))),
           RatAdd(RatMul(distance_score, Rat(2, 10)),
                  RatMul(park_factor, Rat(2, 10))))

\* lines 59-64
overall_score_of(ev_score, hard_hit_score, distance_score, park_factor) ==
    RatAdd(RatAdd(RatMul(ev_score, Rat(3, 10)),
                  RatMul(hard_hit_score, Rat(3, 10))),
           RatAdd(RatMul(distance_score, Rat(2, 10)),
                  RatMul(RatMul(park_factor, RatInt(20)), Rat(2, 10))))

\* src/interactive.py, lines 48-49: the label display_stadiums prints
park_type(park_factor) ==
    IF RatGt(park_factor, Rat(105, 100)) THEN "Hitter-friendly"
    ELSE IF RatGt(Rat(95, 100), park_factor) THEN "Pitcher-friendly"
    ELSE "Neutral"

\* line 73 with >= and <= for > and <
stadium_advantage_inclusive(park_factor) ==
    IF RatGe(park_factor, Rat(105, 100)) THEN "Hitter-friendly"
    ELSE IF RatGe(Rat(95, 100), park_factor) THEN "Pitcher-friendly"
    ELSE "Neutral"

\* line 73
stadium_advantage(park_factor) ==
    IF RatGt(park_factor, Rat(105, 100)) THEN "Hitter-friendly"
    ELSE IF RatGt(Rat(95, 100), park_factor) THEN "Pitcher-friendly"
    ELSE "Neutral"

calculate_stadium_match_score(stats, stadium) ==
    IF stats = None \/ stadium = None THEN None
    ELSE LET avg_ev        == Get(stats, "avg_exit_velocity", RatInt(0))
             hard_hit_rate == Get(stats, "hard_hit_rate", RatInt(0))
             park_factor   == park_factor_of(stadium)
             ev_score      == RatMul(avg_ev, park_factor)
             left_field    == left_field_of(stadium)
             center_field  == center_field_of(stadium)
             right_field   == right_field_of(stadium)
             avg_distance  == Get(stats, "avg_distance", RatInt(0))
             min_dimension == Min2(left_field, Min2(center_field, right_field))
             distance_score ==
                 distance_score_of(avg_distance, hard_hit_rate, min_dimension,
                                   park_factor)
             hard_hit_score == RatMul(RatMul(hard_hit_rate, park_factor), RatInt(100))
             home_run_rate  == Get(stats, "home_run_rate", NoneRat)
         IN  [exit_velocity_score |-> ev_score,
              hard_hit_score      |-> hard_hit_score,
              distance_score      |-> distance_score,
              park_factor_boost   |-> park_factor,
              overall_match_score |->
                  overall_score_of(ev_score, hard_hit_score, distance_score,
                                   park_factor),
              expected_home_runs  |->
                  IF Truthy(home_run_rate)
                  THEN RatMul(RatMul(home_run_rate, park_factor), RatInt(100))
                  ELSE NoneRat,
              stadium_advantage   |-> stadium_advantage(park_factor)]

\* lines 99-111 with every row scored against the registry's first stadium
comparison_of_first_stadium(id, name, stats, registry, stadium) ==
    registry[stadium]
    @@ calculate_stadium_match_score(stats, registry[STADIUM_NAMES[1]])
    @@ [player_id |-> id, player_name |-> name, stadium_name |-> stadium,
        team |-> registry[stadium].team]

\* lines 103-110: the dict of one stadium, its later keys over its earlier
comparison_of(id, name, stats, registry, stadium) ==
    registry[stadium]
    @@ calculate_stadium_match_score(stats, registry[stadium])
    @@ [player_id |-> id, player_name |-> name, stadium_name |-> stadium,
        team |-> registry[stadium].team]

\* lines 92-113 for the summary get_hitter_summary_stats returned; <<>> is
\* the empty frame
compare_hitter_to_all_stadiums(id, name, stats, registry) ==
    IF stats = None THEN <<>>
    ELSE [i \in 1..Len(STADIUM_NAMES) |->
             comparison_of(id, name, stats, registry, STADIUM_NAMES[i])]

\* s without its i-th element
RemoveAt(s, i) == [j \in 1..(Len(s) - 1) |-> IF j < i THEN s[j] ELSE s[j + 1]]

\* DataFrame.nlargest(n, 'overall_match_score') keeping the last of equal
\* scores first (keep='last')
RECURSIVE nlargest_keep_last(_, _)
nlargest_keep_last(rows, n) ==
    IF n <= 0 \/ Len(rows) = 0 THEN <<>>
    ELSE LET top == CHOOSE i \in 1..Len(rows) :
                        \A j \in 1..Len(rows) :
                            \/ rows[j].overall_match_score < rows[i].overall_match_score
                            \/ rows[j].overall_match_score = rows[i].overall_match_score
                                  /\ j <= i
         IN  <<rows[top]>> \o nlargest_keep_last(RemoveAt(rows, top), n - 1)

\* line 193, DataFrame.nlargest(n, 'overall_match_score'): the n rows of
\* largest score, largest first, equal scores in the frame's order
\* (keep='first'); no row for n <= 0
RECURSIVE nlargest(_, _)
nlargest(rows, n) ==
    IF n <= 0 \/ Len(rows) = 0 THEN <<>>
    ELSE LET top == CHOOSE i \in 1..Len(rows) :
                        \A j \in 1..Len(rows) :
                            \/ rows[j].overall_match_score < rows[i].overall_match_score
                            \/ rows[j].overall_match_score = rows[i].overall_match_score
                                  /\ j >= i
         IN  <<rows[top]>> \o nlargest(RemoveAt(rows, top), n - 1)

\* lines 188-193; the empty table when the hitter has no row
get_best_stadium_matches(name, table, n) ==
    LET hitter_comparisons ==
            SelectSeq(table, LAMBDA row : row.player_name = name)
    IN  IF Len(hitter_comparisons) = 0 THEN <<>>
        ELSE nlargest(hitter_comparisons, n)

\* the registry's names in the order of their strings, the order in which
\* groupby('stadium_name') lists its groups (sort=True)
SORTED_STADIUM_NAMES == <<"Coors Field", "Fenway Park", "Yankee Stadium">>

\* Series.std(): the sample standard deviation (ddof = 1) of integer values,
\* held as its square; NaN for fewer than two values
StdSquared(values) ==
    IF Len(values) < 2 THEN NaNRat
    ELSE LET n    == Len(values)
             sum  == SumSeq(values)
             sumsq == SumSeq([i \in 1..n |-> values[i] * values[i]])
         IN  Rat(n * sumsq - sum * sum, n * (n - 1))

\* lines 206-212: one row per stadium_name of the table, the groups in the
\* order of their names
stadium_stats_of(table) ==
    LET present == SelectSeq(SORTED_STADIUM_NAMES,
                             LAMBDA name : \E i \in 1..Len(table) :
                                              table[i].stadium_name = name)
    IN  [g \in 1..Len(present) |->
            LET group  == SelectSeq(table,
                                    LAMBDA row : row.stadium_name = present[g])
                scores == [i \in 1..Len(group) |-> group[i].overall_match_score]
            IN  [stadium_name    |-> present[g],
                 avg_match_score |-> MeanSkipNaN(scores),
                 std_match_score |-> StdSquared(scores),
                 num_hitters     |-> Len(scores),
                 park_factor     |-> group[1].park_factor,
                 team            |-> group[1].team]]

\* the rows in every order p
Reorderings(rows) ==
    {[i \in 1..Len(rows) |-> rows[p[i]]] :
        p \in {q \in [1..Len(rows) -> 1..Len(rows)] :
                  \A i, j \in 1..Len(rows) : i # j => q[i] # q[j]}}

\* line 213 without ascending=False
sort_values_ascending(rows) ==
    {sorted \in Reorderings(rows) :
        \A i \in 1..(Len(rows) - 1) :
            RatGe(sorted[i + 1].avg_match_score, sorted[i].avg_match_score)}

\* line 213, sort_values('avg_match_score', ascending=False) with the default
\* kind='quicksort', which is not stable: the orders it can leave the rows
\* in, rows of equal avg_match_score in any order
sort_values_descending(rows) ==
    {sorted \in Reorderings(rows) :
        \A i \in 1..(Len(rows) - 1) :
            RatGe(sorted[i].avg_match_score, sorted[i + 1].avg_match_score)}

\* lines 206-215: the tables get_stadium_rankings can return
get_stadium_rankings(table) ==
    sort_values_descending(stadium_stats_of(table))

\* DataFrame.head(n): the first n rows, all but the last -n for a negative n
head(rows, n) ==
    IF n >= 0 THEN SubSeq(rows, 1, Min2(n, Len(rows)))
    ELSE SubSeq(rows, 1, Max2(0, Len(rows) + n))

\* line 141, sort_values('PA', ascending=False) with the default
\* kind='quicksort': the orders it can leave the rows in, rows of equal PA in
\* any order
sort_values_pa_descending(rows) ==
    {sorted \in Reorderings(rows) :
        \A i \in 1..(Len(rows) - 1) : sorted[i].PA >= sorted[i + 1].PA}

\* lines 142-143: "if top_n:" is false for None and for 0
limit_top_n(rows, n) == IF IsNaN(n) \/ n = 0 THEN rows ELSE head(rows, n)

\* lines 138-143: the frames hitters can be after the filter, the sort and
\* the limit
selected_hitters(rows, least_pa, n) ==
    {limit_top_n(sorted, n) :
        sorted \in sort_values_pa_descending(
                       SelectSeq(rows, LAMBDA row : row.PA >= least_pa))}

\* pd.concat(frames, ignore_index=True): the rows of the frames, one frame
\* after the other
RECURSIVE concat(_)
concat(frames) == IF frames = <<>> THEN <<>> ELSE Head(frames) \o concat(Tail(frames))

----------------------------------------------------------------------------
(* The flight model of the specification (sections 4.1, 4.2 and 4.4): no   *)
(* source file holds it.  Fixed point: positions in 1/1000 ft, velocities  *)
(* in 1/1000 ft/s, densities in 1/10000 of the sea-level density.          *)

\* floor of the square root
RECURSIVE Isqrt(_)
Isqrt(n) ==
    IF n < 2 THEN n
    ELSE CHOOSE r \in UNION {{small, small + 1} : small \in {2 * Isqrt(n \div 4)}} :
             r * r <= n /\ (r + 1) * (r + 1) > n

\* exp(-altitude_ft / 30000) by its series, times 10000
RECURSIVE ExpSeries(_, _, _, _)
ExpSeries(altitude, term, k, sum) ==
    IF term = 0 \/ k > 12 THEN sum
    ELSE LET next == -((term * altitude) \div (30000 * k))
         IN  ExpSeries(altitude, next, k + 1, sum + next)

\* the sea-level density at every altitude
density_sea_level(altitude) == 10000

\* density(altitude_ft) = 0.075 * exp(-altitude_ft / 30000), relative to 0.075
density(altitude) ==
    IF altitude >= 0 THEN ExpSeries(altitude, 10000, 1, 10000)
    ELSE (10000 * 10000) \div ExpSeries(-altitude, 10000, 1, 10000)

\* (cos, sin) of an angle in millidegrees, times 10000, by the rotations of
\* ArctanTable (6073 = 10000 / the rotations' gain 1.64676)
RECURSIVE CordicRotate(_, _, _, _)
CordicRotate(u, v, z, i) ==
    IF i > Len(ArctanTable) THEN <<u, v>>
    ELSE IF z >= 0
         THEN CordicRotate(u - v \div Pow2(i - 1), v + u \div Pow2(i - 1),
                           z - ArctanTable[i], i + 1)
         ELSE CordicRotate(u + v \div Pow2(i - 1), v - u \div Pow2(i - 1),
                           z + ArctanTable[i], i + 1)

CosSin(angle) == CordicRotate(6073, 0, angle, 1)

\* One step of dt = 0.01 s of a flight [x, y, vx, vy]; a flight that has
\* reached the target distance, or the ground (y <= 0) short of it, stays as
\* it is.  drag is 0.5 * density * Cd * A / m_slug * dt with Cd = 0.3,
\* A = 0.0458, m_slug = 0.3125 / 32.17 (5304e-9 per (ft/100)^2 at sea level);
\* g * dt = 0.3217 ft/s.  A speed of zero means no drag.
FlightStep(f, target, drag) ==
    IF f.x >= target \/ f.y <= 0 THEN f
    ELSE LET cx  == f.vx \div 10
             cy  == f.vy \div 10
             v   == Isqrt(cx * cx + cy * cy)
             dvx == IF v = 0 THEN 0 ELSE -10 * ((((v * Abs(cx)) \div 1000) * drag) \div 1000000)
             dvy == IF v = 0 THEN 0 ELSE -10 * ((((v * Abs(cy)) \div 1000) * drag) \div 1000000)
             nvx == f.vx + (IF cx >= 0 THEN dvx ELSE -dvx)
             nvy == f.vy + (IF cy >= 0 THEN dvy ELSE -dvy) - 322
         IN  [x |-> f.x + nvx \div 100, y |-> f.y + nvy \div 100, vx |-> nvx, vy |-> nvy]

\* 2^k steps
RECURSIVE FlightSteps(_, _, _, _)
FlightSteps(f, target, drag, k) ==
    IF k = 0 THEN FlightStep(f, target, drag)
    ELSE LET half == FlightSteps(f, target, drag, k - 1)
         IN  IF half.x >= target \/ half.y <= 0 THEN half
             ELSE FlightSteps(half, target, drag, k - 1)

\* the whole flight (no flight of the model lasts 2^11 steps, 20 s)
\* the result with every flight reported as arrived
flight_result_always_arrived(f, target) == [arrived |-> TRUE, height |-> f.y]

\* the result of a flight that has stopped: its height, and whether it
\* stopped at the target distance or on the ground short of it
flight_result(f, target) == [arrived |-> f.x >= target, height |-> f.y]

Fly(x, y, vx, vy, target, drag) ==
    flight_result(FlightSteps([x |-> x, y |-> y, vx |-> vx, vy |-> vy], target, drag, 11),
                  target)

\* height_at_distance(launch_speed_mph, launch_angle_deg, target_distance_ft,
\* air_density): the target in 1/1000 ft, the angle in degrees
\* the initial state: x = 0, y = 3 ft, the speed in ft/s decomposed by the angle
initial_flight(launch_speed, launch_angle) ==
    LET v0 == (launch_speed * 146667) \div 100
        cs == CosSin(launch_angle * 1000)
    IN  [x |-> 0, y |-> 3000,
         vx |-> ((v0 \div 100) * cs[1]) \div 100,
         vy |-> ((v0 \div 100) * cs[2]) \div 100]

\* the drag factor of FlightStep at an air density
drag_of(air_density) == (5304 * air_density) \div 10000

height_at_distance(launch_speed, launch_angle, target, air_density) ==
    LET f == initial_flight(launch_speed, launch_angle)
    IN  Fly(f.x, f.y, f.vx, f.vy, target, drag_of(air_density))

\* section 7: wall heights default to 8 ft
wall_height_of(stadium) == Get(stadium, "wall_height", 8)

\* sections 4.2 and 4.4: a returned height clears the wall if the flight
\* arrived and the height is greater than the wall's (1/1000 ft)
clearance(result, stadium) ==
    result.arrived /\ result.height > 1000 * wall_height_of(stadium)

\* section 4.4, its second condition: the ball arrives at the fence distance
\* (1/30000 ft) higher than the wall
clears_wall(launch_speed, launch_angle, fenceX30000, stadium) ==
    clearance(height_at_distance(launch_speed, launch_angle, fenceX30000 \div 30,
                                 density(Get(stadium, "altitude", 0))),
              stadium)

----------------------------------------------------------------------------
(* Inputs                                                                  *)

\* the most rows the provider returns
MaxRows == 2

SeqsUpTo(S, n) == UNION {[1..k -> S] : k \in 0..n}

\* The frames the provider can return, by their columns.  Every frame has
\* type, launch_speed and launch_angle; the other columns come and go.
BaseRows ==
    [type : {"X", "S"}, launch_speed : {NaN, 90, 105}, launch_angle : {NaN, 28}]

CoordRows ==
    [type : {"X"}, launch_speed : {105}, launch_angle : {28},
     hit_distance_sc : {410, 480}, hc_x : {NaN, 25, 125, 245}, hc_y : {100}]

SprayRows ==
    [type : {"X"}, launch_speed : {0, 105}, launch_angle : {28},
     hit_distance_sc : {NaN, 410}, spray_angle : {-45000, 0, 120000}]

EstimateRows ==
    [type : {"X"}, launch_speed : {0, 105}, launch_angle : {28},
     spray_angle : {0, 120000}, events : {"home_run", "field_out"}]

FrameKinds == {BaseRows, CoordRows, SprayRows, EstimateRows}

ColumnsOf(rows) == DOMAIN (CHOOSE r \in rows : TRUE)

\* the defaults of the calculations, stated as a record
ExplicitDefaults ==
    [left_field |-> 330, center_field |-> 400, right_field |-> 330,
     park_factor |-> 100, wall_height |-> 8]

\* a record that states two fields and lacks the others
PartialStadium == [center_field |-> 410, park_factor |-> 112]

\* the stadium dicts a caller hands to the calculations
StadiumArgs ==
    {get_stadium_info(STADIUM_DATA_AT_LOAD, "Yankee Stadium"),
     EmptyDict, ExplicitDefaults, PartialStadium}

\* what the user types at the stadium prompt
Inputs == {"quit", "QUIT", "exit", "q", "-1", "0", "1", "2", "3", "4", "abc"}

\* str.lower() on those inputs
lower(str) == IF str = "QUIT" THEN "quit" ELSE str

\* int(choice): NaN stands for the ValueError
ParseInt(str) ==
    CASE str = "0" -> 0 [] str = "1" -> 1 [] str = "2" -> 2 [] str = "3" -> 3
      [] str = "4" -> 4 [] str = "-1" -> -1 [] OTHER -> NaN

\* src/interactive.py, line 168 without its filter: stadiums_df.iloc[0]
selected_first_row(stadiums_df, choice_num) == stadiums_df[1]

\* src/interactive.py, line 168: the first row whose number (its position,
\* lines 40-41) is choice_num
selected(stadiums_df, choice_num) ==
    stadiums_df[CHOOSE number \in 1..Len(stadiums_df) : number = choice_num]

----------------------------------------------------------------------------
(* Direct calls of the calculations, in the order of a session             *)

NotComputed ==
    /\ bip_data = <<>>
    /\ hit_distances = <<>>
    /\ angles = <<>>
    /\ fence_distances = <<>>
    /\ reached = <<>>
    /\ xba_values = <<>>
    /\ xslg_values = <<>>
    /\ home_runs = NaN
    /\ expected_stats = None
    /\ hitter_stats = None
    /\ match_scores = None

\* no table has been handed to get_best_stadium_matches
NoRanking ==
    /\ comparisons_df = <<>>
    /\ hitter_name = ""
    /\ top_n = 0
    /\ best_matches = <<>>
    /\ stadium_rankings = <<>>

\* compare_all_hitters_to_stadiums has not been called
NoBatch ==
    /\ all_hitters = <<>>
    /\ statcast_of = <<>>
    /\ min_pa = 0
    /\ hitters = <<>>
    /\ position = 0
    /\ processing = <<>>
    /\ all_comparisons = <<>>

\* compare_hitter_to_all_stadiums has not been called
NoComparing ==
    /\ player_id = 0
    /\ player_name = ""
    /\ comparisons = <<>>

\* height_at_distance has not been called
NoFlight ==
    /\ flight_args = [launch_speed |-> 0, launch_angle |-> 0, target |-> 0, altitude |-> 0]
    /\ flight = [x |-> 0, y |-> 0, vx |-> 0, vy |-> 0]
    /\ ball_height = [arrived |-> FALSE, height |-> 0]

\* what a call of calculate_expected_stats_for_stadium leaves in its locals
ExpectedStatsLocals(bip, cols) ==
    IF Len(bip) = 0 THEN UNCHANGED stats_locals
    ELSE /\ xba_values' = xba_values_of(bip, cols)
         /\ xslg_values' = xslg_values_of(bip, cols)

\* what a call of calculate_expected_home_runs leaves in its locals
ExpectedHomeRunsLocals(bip, cols, stadium) ==
    IF returns_early(bip, cols) THEN UNCHANGED locals
    ELSE /\ hit_distances' = kept_hit_distances(bip, cols)
         /\ angles' = angles_of(bip, cols)
         /\ fence_distances' = fence_distances_of(bip, cols, stadium)
         /\ reached' = reached_of(bip, cols, stadium)

Init ==
    /\ STADIUM_DATA = STADIUM_DATA_AT_LOAD
    /\ \E rows \in FrameKinds :
          /\ columns = ColumnsOf(rows)
          /\ statcast_data \in SeqsUpTo(rows, MaxRows)
    /\ stadium_info \in StadiumArgs
    /\ stadium_name = ""
    /\ choice = ""
    /\ pc = "fetch"
    /\ NoRanking
    /\ NoFlight
    /\ NoComparing
    /\ NoBatch
    /\ NotComputed

GetHitterBipStats ==
    /\ pc = "fetch"
    /\ bip_data' = get_hitter_bip_stats(statcast_data, columns)
    /\ pc' = "home_runs"
    /\ UNCHANGED locals
    /\ UNCHANGED <<STADIUM_DATA, statcast_data, columns, choice, stadium_name,
                   stadium_info, home_runs, expected_stats, hitter_stats,
                   match_scores>>
    /\ UNCHANGED ranking
    /\ UNCHANGED stats_locals
    /\ UNCHANGED trajectory
    /\ UNCHANGED comparing
    /\ UNCHANGED batch

CalculateExpectedHomeRuns ==
    /\ pc = "home_runs"
    /\ home_runs' = calculate_expected_home_runs(bip_data, columns, stadium_info)
    /\ ExpectedHomeRunsLocals(bip_data, columns, stadium_info)
    /\ pc' = "stats"
    /\ UNCHANGED <<STADIUM_DATA, statcast_data, columns, choice, stadium_name,
                   stadium_info, bip_data, expected_stats, hitter_stats,
                   match_scores>>
    /\ UNCHANGED ranking
    /\ UNCHANGED stats_locals
    /\ UNCHANGED trajectory
    /\ UNCHANGED comparing
    /\ UNCHANGED batch

CalculateExpectedStatsForStadium ==
    /\ pc = "stats"
    /\ expected_stats' =
          calculate_expected_stats_for_stadium(bip_data, columns, stadium_info)
    /\ ExpectedHomeRunsLocals(bip_data, columns, stadium_info)
    /\ pc' = "summary"
    /\ UNCHANGED <<STADIUM_DATA, statcast_data, columns, choice, stadium_name,
                   stadium_info, bip_data, home_runs, hitter_stats, match_scores>>
    /\ UNCHANGED ranking
    /\ ExpectedStatsLocals(bip_data, columns)
    /\ UNCHANGED trajectory
    /\ UNCHANGED comparing
    /\ UNCHANGED batch

GetHitterSummaryStats ==
    /\ pc = "summary"
    /\ hitter_stats' = get_hitter_summary_stats(bip_data, columns)
    /\ pc' = "score"
    /\ UNCHANGED locals
    /\ UNCHANGED <<STADIUM_DATA, statcast_data, columns, choice, stadium_name,
                   stadium_info, bip_data, home_runs, expected_stats, match_scores>>
    /\ UNCHANGED ranking
    /\ UNCHANGED stats_locals
    /\ UNCHANGED trajectory
    /\ UNCHANGED comparing
    /\ UNCHANGED batch

CalculateStadiumMatchScore ==
    /\ pc = "score"
    /\ match_scores' = calculate_stadium_match_score(hitter_stats, stadium_info)
    /\ pc' = "done"
    /\ UNCHANGED locals
    /\ UNCHANGED <<STADIUM_DATA, statcast_data, columns, choice, stadium_name,
                   stadium_info, bip_data, home_runs, expected_stats, hitter_stats>>
    /\ UNCHANGED ranking
    /\ UNCHANGED stats_locals
    /\ UNCHANGED trajectory
    /\ UNCHANGED comparing
    /\ UNCHANGED batch

Next ==
    \/ GetHitterBipStats
    \/ CalculateExpectedHomeRuns
    \/ CalculateExpectedStatsForStadium
    \/ GetHitterSummaryStats
    \/ CalculateStadiumMatchScore

Spec == Init /\ [][Next]_vars

----------------------------------------------------------------------------
(* Direct calls on one event, over a grid of exit velocities and launch    *)
(* angles                                                                  *)

ExitVelocities == {0, 60, 70, 71, 85, 99, 100, 101, 120}

LaunchAngles == {-30, -20, -19, 0, 9, 10, 11, 25, 39, 40, 41, 90}

GridRows ==
    [type : {"X"}, launch_speed : ExitVelocities, launch_angle : LaunchAngles]

GridInit ==
    /\ STADIUM_DATA = STADIUM_DATA_AT_LOAD
    /\ columns = ColumnsOf(GridRows)
    /\ statcast_data \in [1..1 -> GridRows]
    /\ stadium_info = EmptyDict
    /\ stadium_name = ""
    /\ choice = ""
    /\ pc = "fetch"
    /\ NoRanking
    /\ NoFlight
    /\ NoComparing
    /\ NoBatch
    /\ NotComputed

GridSpec == GridInit /\ [][Next]_vars

----------------------------------------------------------------------------
(* Direct calls on frames that carry the provider's measured columns       *)
(* (xBA 0.7 = 6300, xSLG 1.2 = 21600)                                      *)

MeasuredRows ==
    [type : {"X"}, launch_speed : {105}, launch_angle : {28},
     estimated_ba_using_speedangle : {NaN, 6300},
     estimated_slg_using_speedangle : {NaN, 21600}]

MeasuredBaRows ==
    [type : {"X"}, launch_speed : {105}, launch_angle : {28},
     estimated_ba_using_speedangle : {NaN, 6300}]

XbaRows ==
    [type : {"X"}, launch_speed : {105}, launch_angle : {28}, xba : {NaN, 6300}]

PlainRows == [type : {"X"}, launch_speed : {90, 105}, launch_angle : {28}]

MeasuredKinds == {MeasuredRows, MeasuredBaRows, XbaRows, PlainRows}

MeasuredInit ==
    /\ STADIUM_DATA = STADIUM_DATA_AT_LOAD
    /\ \E rows \in MeasuredKinds :
          /\ columns = ColumnsOf(rows)
          /\ statcast_data \in SeqsUpTo(rows, MaxRows)
    /\ stadium_info = EmptyDict
    /\ stadium_name = ""
    /\ choice = ""
    /\ pc = "fetch"
    /\ NoRanking
    /\ NoFlight
    /\ NoComparing
    /\ NoBatch
    /\ NotComputed

MeasuredSpec == MeasuredInit /\ [][Next]_vars

----------------------------------------------------------------------------
(* Direct calls of calculate_stadium_match_score                           *)

\* a dict of the fields that are given (a field that is Absent has no key)
Absent == <<0, -2>>

DictOf(fields) ==
    [k \in {f \in DOMAIN fields : fields[f] # Absent} |-> fields[k]]

\* hitter_stats arguments: averages as fractions; avg_distance can be
\* missing as a key, None (no hit_distance_sc column) or NaN (no measured
\* distance in the column)
StatsArgs ==
    {DictOf([avg_exit_velocity |-> ev, hard_hit_rate |-> hh, avg_distance |-> dist]) :
        ev \in {RatInt(95), Rat(177, 2)},
        hh \in {Absent, RatInt(0), Rat(1, 2)},
        dist \in {Absent, NoneRat, NaNRat, RatInt(0), RatInt(300), RatInt(330),
                  RatInt(380), Rat(811, 2)}}

\* park factors in hundredths, around both label thresholds
ParkFactors == {88, 95, 100, 105, 110, 130}

ScoreStadiums ==
    {[park_factor |-> p] : p \in ParkFactors}
    \cup {get_stadium_info(STADIUM_DATA_AT_LOAD, "Yankee Stadium")}

ScoreInit ==
    /\ STADIUM_DATA = STADIUM_DATA_AT_LOAD
    /\ statcast_data = <<>>
    /\ columns = {}
    /\ stadium_info \in ScoreStadiums
    /\ stadium_name = ""
    /\ choice = ""
    /\ pc = "score"
    /\ bip_data = <<>>
    /\ hit_distances = <<>>
    /\ angles = <<>>
    /\ fence_distances = <<>>
    /\ reached = <<>>
    /\ xba_values = <<>>
    /\ xslg_values = <<>>
    /\ home_runs = NaN
    /\ expected_stats = None
    /\ hitter_stats \in StatsArgs
    /\ match_scores = None
    /\ NoRanking
    /\ NoFlight
    /\ NoComparing
    /\ NoBatch

ScoreNext == CalculateStadiumMatchScore

ScoreSpec == ScoreInit /\ [][ScoreNext]_vars

----------------------------------------------------------------------------
(* Direct calls of get_best_stadium_matches                                *)

\* the most rows of a comparison table
MaxComparisons == 3

ComparisonRows ==
    [player_name : {"Aaron Judge", "Mookie Betts"},
     stadium_name : {"Yankee Stadium", "Fenway Park"},
     overall_match_score : {50, 52}]

HitterNames == {"Aaron Judge", "Shohei Ohtani"}

TopNs == {0, 1, 2, 5}

RankingInit ==
    /\ STADIUM_DATA = STADIUM_DATA_AT_LOAD
    /\ statcast_data = <<>>
    /\ columns = {}
    /\ stadium_info = None
    /\ stadium_name = ""
    /\ choice = ""
    /\ pc = "rank"
    /\ NotComputed
    /\ comparisons_df \in SeqsUpTo(ComparisonRows, MaxComparisons)
    /\ hitter_name \in HitterNames
    /\ top_n \in TopNs
    /\ best_matches = <<>>
    /\ stadium_rankings = <<>>
    /\ NoFlight
    /\ NoComparing
    /\ NoBatch

GetBestStadiumMatches ==
    /\ pc = "rank"
    /\ best_matches' = get_best_stadium_matches(hitter_name, comparisons_df, top_n)
    /\ pc' = "done"
    /\ UNCHANGED <<STADIUM_DATA, statcast_data, columns, choice, stadium_name,
                   stadium_info, bip_data, home_runs, expected_stats,
                   hitter_stats, match_scores, comparisons_df, hitter_name, top_n,
                   stadium_rankings>>
    /\ UNCHANGED locals
    /\ UNCHANGED stats_locals
    /\ UNCHANGED trajectory
    /\ UNCHANGED comparing
    /\ UNCHANGED batch

RankingNext == GetBestStadiumMatches

RankingSpec == RankingInit /\ [][RankingNext]_vars

----------------------------------------------------------------------------
(* Direct calls of get_stadium_rankings                                    *)

\* rows as compare_hitter_to_all_stadiums builds them: team and park_factor
\* are the registry's values of the row's stadium
RankedRows ==
    {[player_name |-> player, stadium_name |-> name,
      team |-> STADIUM_DATA_AT_LOAD[name].team,
      park_factor |-> STADIUM_DATA_AT_LOAD[name].park_factor,
      overall_match_score |-> score] :
        player \in {"Aaron Judge", "Mookie Betts"},
        name \in DOMAIN STADIUM_DATA_AT_LOAD,
        score \in {50, 53}}

\* src/main.py, lines 64-66 and 84: the table handed over has rows
RankingsInit ==
    /\ STADIUM_DATA = STADIUM_DATA_AT_LOAD
    /\ statcast_data = <<>>
    /\ columns = {}
    /\ stadium_info = None
    /\ stadium_name = ""
    /\ choice = ""
    /\ pc = "rankings"
    /\ NotComputed
    /\ comparisons_df \in SeqsUpTo(RankedRows, MaxComparisons) \ {<<>>}
    /\ hitter_name = ""
    /\ top_n = 0
    /\ best_matches = <<>>
    /\ stadium_rankings = <<>>
    /\ NoFlight
    /\ NoComparing
    /\ NoBatch

GetStadiumRankings ==
    /\ pc = "rankings"
    /\ stadium_rankings' \in get_stadium_rankings(comparisons_df)
    /\ pc' = "done"
    /\ UNCHANGED <<STADIUM_DATA, statcast_data, columns, choice, stadium_name,
                   stadium_info, bip_data, home_runs, expected_stats,
                   hitter_stats, match_scores, comparisons_df, hitter_name, top_n,
                   best_matches>>
    /\ UNCHANGED locals
    /\ UNCHANGED stats_locals
    /\ UNCHANGED trajectory
    /\ UNCHANGED comparing
    /\ UNCHANGED batch

RankingsNext == GetStadiumRankings

RankingsSpec == RankingsInit /\ [][RankingsNext]_vars

----------------------------------------------------------------------------
(* Calls of height_at_distance, the integration step by step               *)

LaunchSpeeds == {0, 60, 105}

FlightLaunchAngles == {-10, 0, 10, 28, 90}

\* target distances in feet
TargetDistances == {0, 10, 20, 50, 400}

Altitudes == {0, 5280}

FlightInit ==
    /\ STADIUM_DATA = STADIUM_DATA_AT_LOAD
    /\ statcast_data = <<>>
    /\ columns = {}
    /\ stadium_info = None
    /\ stadium_name = ""
    /\ choice = ""
    /\ pc = "integrate"
    /\ NotComputed
    /\ NoRanking
    /\ flight_args \in [launch_speed : LaunchSpeeds, launch_angle : FlightLaunchAngles,
                        target : {1000 * d : d \in TargetDistances},
                        altitude : Altitudes]
    /\ flight = initial_flight(flight_args.launch_speed, flight_args.launch_angle)
    /\ ball_height = [arrived |-> FALSE, height |-> 0]
    /\ NoComparing
    /\ NoBatch

\* the loop's condition: the ball is short of the target and above the ground
InFlight == flight.x < flight_args.target /\ flight.y > 0

\* one step of the loop
Integrate ==
    /\ pc = "integrate"
    /\ InFlight
    /\ flight' = FlightStep(flight, flight_args.target,
                            drag_of(density(flight_args.altitude)))
    /\ UNCHANGED <<STADIUM_DATA, statcast_data, columns, pc, choice, stadium_name,
                   stadium_info, bip_data, home_runs, expected_stats,
                   hitter_stats, match_scores, flight_args, ball_height>>
    /\ UNCHANGED locals
    /\ UNCHANGED stats_locals
    /\ UNCHANGED ranking
    /\ UNCHANGED comparing
    /\ UNCHANGED batch

\* the loop's exit and the return
ReturnHeight ==
    /\ pc = "integrate"
    /\ ~InFlight
    /\ ball_height' = flight_result(flight, flight_args.target)
    /\ pc' = "done"
    /\ UNCHANGED <<STADIUM_DATA, statcast_data, columns, choice, stadium_name,
                   stadium_info, bip_data, home_runs, expected_stats,
                   hitter_stats, match_scores, flight_args, flight>>
    /\ UNCHANGED locals
    /\ UNCHANGED stats_locals
    /\ UNCHANGED ranking
    /\ UNCHANGED comparing
    /\ UNCHANGED batch

FlightNext == Integrate \/ ReturnHeight

\* a call that has started runs on: the loop takes its next step, the
\* function returns
FlightSpec == FlightInit /\ [][FlightNext]_vars /\ WF_vars(FlightNext)

----------------------------------------------------------------------------
(* Direct calls on frames with hit coordinates, spray angles, both or      *)
(* neither                                                                 *)

BothRows ==
    [type : {"X"}, launch_speed : {105}, launch_angle : {28},
     hit_distance_sc : {410}, hc_x : {NaN, 0, 25, 250, 251}, hc_y : {100, 251},
     spray_angle : {30000}]

CoordOnlyRows ==
    [type : {"X"}, launch_speed : {105}, launch_angle : {28},
     hit_distance_sc : {410}, hc_x : {0, 25, 250}, hc_y : {NaN, 100}]

SprayOnlyRows ==
    [type : {"X"}, launch_speed : {105}, launch_angle : {28},
     hit_distance_sc : {410}, spray_angle : {-45000, 30000}]

NeitherRows ==
    [type : {"X"}, launch_speed : {90, 105}, launch_angle : {28},
     hit_distance_sc : {410}]

FallbackKinds == {BothRows, CoordOnlyRows, SprayOnlyRows, NeitherRows}

FallbackInit ==
    /\ STADIUM_DATA = STADIUM_DATA_AT_LOAD
    /\ \E rows \in FallbackKinds :
          /\ columns = ColumnsOf(rows)
          /\ statcast_data \in SeqsUpTo(rows, MaxRows)
    /\ stadium_info = EmptyDict
    /\ stadium_name = ""
    /\ choice = ""
    /\ pc = "fetch"
    /\ NoRanking
    /\ NoFlight
    /\ NoComparing
    /\ NoBatch
    /\ NotComputed

FallbackSpec == FallbackInit /\ [][Next]_vars

----------------------------------------------------------------------------
(* Direct calls of compare_hitter_to_all_stadiums                          *)

PlayerIds == {15640}

PlayerNames == {"Aaron Judge"}

CompareInit ==
    /\ STADIUM_DATA = STADIUM_DATA_AT_LOAD
    /\ \E rows \in FrameKinds :
          /\ columns = ColumnsOf(rows)
          /\ statcast_data \in SeqsUpTo(rows, MaxRows)
    /\ stadium_info = None
    /\ stadium_name = ""
    /\ choice = ""
    /\ pc = "compare"
    /\ NoRanking
    /\ NoFlight
    /\ NotComputed
    /\ player_id \in PlayerIds
    /\ player_name \in PlayerNames
    /\ comparisons = <<>>
    /\ NoBatch

\* lines 92-113: the summary is fetched, then every stadium is scored
CompareHitterToAllStadiums ==
    /\ pc = "compare"
    /\ hitter_stats' =
          get_hitter_summary_stats(get_hitter_bip_stats(statcast_data, columns), columns)
    /\ comparisons' =
          compare_hitter_to_all_stadiums(player_id, player_name, hitter_stats',
                                         STADIUM_DATA)
    /\ pc' = "compared"
    /\ UNCHANGED <<STADIUM_DATA, statcast_data, columns, choice, stadium_name,
                   stadium_info, bip_data, home_runs, expected_stats,
                   match_scores, player_id, player_name>>
    /\ UNCHANGED locals
    /\ UNCHANGED stats_locals
    /\ UNCHANGED ranking
    /\ UNCHANGED trajectory
    /\ UNCHANGED batch

CompareNext == CompareHitterToAllStadiums

CompareSpec == CompareInit /\ [][CompareNext]_vars

----------------------------------------------------------------------------
(* A run of compare_all_hitters_to_stadiums                                *)

\* the most hitters get_all_hitters returns
MaxHitters == 3

PlateAppearances == {50, 100, 150}

\* the frame of get_all_hitters with n rows: IDfg 1..n
HitterFrames(n) ==
    {[i \in 1..n |-> [IDfg |-> i, full_name |-> <<"Player", i>>, PA |-> pa[i]]] :
        pa \in [1..n -> PlateAppearances]}

\* what the provider has for one player: nothing, or one ball in play
PlayerFrames ==
    {<<>>, <<[type |-> "X", launch_speed |-> 105, launch_angle |-> 28]>>}

\* --top-n of src/main.py: not given (None), or an integer
TopNArgs == {NaN, 0, 1, 2}

AllInit ==
    /\ STADIUM_DATA = STADIUM_DATA_AT_LOAD
    /\ statcast_data = <<>>
    /\ columns = ColumnsOf(BaseRows)
    /\ stadium_info = None
    /\ stadium_name = ""
    /\ choice = ""
    /\ pc = "all_fetch"
    /\ NotComputed
    /\ NoFlight
    /\ NoComparing
    /\ comparisons_df = <<>>
    /\ hitter_name = ""
    /\ best_matches = <<>>
    /\ stadium_rankings = <<>>
    /\ top_n \in TopNArgs
    /\ min_pa = 100
    /\ \E n \in 0..MaxHitters :
          /\ all_hitters \in HitterFrames(n)
          /\ statcast_of \in [1..n -> PlayerFrames]
    /\ hitters = <<>>
    /\ position = 0
    /\ processing = <<>>
    /\ all_comparisons = <<>>

\* lines 131-147
SelectHitters ==
    /\ pc = "all_fetch"
    /\ IF Len(all_hitters) = 0
       THEN /\ pc' = "all_done"
            /\ UNCHANGED <<hitters, position>>
       ELSE /\ hitters' \in selected_hitters(all_hitters, min_pa, top_n)
            /\ position' = 1
            /\ pc' = "all_loop"
    /\ UNCHANGED <<STADIUM_DATA, statcast_data, columns, choice, stadium_name,
                   stadium_info, bip_data, home_runs, expected_stats,
                   hitter_stats, match_scores, all_hitters, statcast_of, min_pa,
                   processing, all_comparisons>>
    /\ UNCHANGED locals
    /\ UNCHANGED stats_locals
    /\ UNCHANGED ranking
    /\ UNCHANGED trajectory
    /\ UNCHANGED comparing

\* lines 149-168: one turn of the loop
ProcessHitter ==
    /\ pc = "all_loop"
    /\ position <= Len(hitters)
    /\ player_id' = hitters[position].IDfg
    /\ player_name' = hitters[position].full_name
    /\ processing' = Append(processing, player_id')
    /\ statcast_data' = statcast_of[player_id']
    /\ hitter_stats' =
          get_hitter_summary_stats(get_hitter_bip_stats(statcast_data', columns), columns)
    /\ comparisons' =
          compare_hitter_to_all_stadiums(player_id', player_name', hitter_stats',
                                         STADIUM_DATA)
    /\ all_comparisons' =
          IF Len(comparisons') > 0 THEN Append(all_comparisons, comparisons')
          ELSE all_comparisons
    /\ position' = position + 1
    /\ UNCHANGED <<STADIUM_DATA, columns, pc, choice, stadium_name,
                   stadium_info, bip_data, home_runs, expected_stats,
                   match_scores, all_hitters, statcast_of, min_pa, hitters>>
    /\ UNCHANGED locals
    /\ UNCHANGED stats_locals
    /\ UNCHANGED ranking
    /\ UNCHANGED trajectory

\* lines 170-173, and main's comparisons_df (src/main.py, line 58)
ConcatComparisons ==
    /\ pc = "all_loop"
    /\ position > Len(hitters)
    /\ comparisons_df' = concat(all_comparisons)
    /\ pc' = "all_done"
    /\ UNCHANGED <<STADIUM_DATA, statcast_data, columns, choice, stadium_name,
                   stadium_info, bip_data, home_runs, expected_stats,
                   hitter_stats, match_scores, hitter_name, top_n, best_matches,
                   stadium_rankings>>
    /\ UNCHANGED locals
    /\ UNCHANGED stats_locals
    /\ UNCHANGED trajectory
    /\ UNCHANGED comparing
    /\ UNCHANGED batch

AllNext == SelectHitters \/ ProcessHitter \/ ConcatComparisons

AllSpec == AllInit /\ [][AllNext]_vars

----------------------------------------------------------------------------
(* The interactive session, src/interactive.py: main                       *)

MainInit ==
    /\ STADIUM_DATA = STADIUM_DATA_AT_LOAD
    /\ \E rows \in FrameKinds :
          /\ columns = ColumnsOf(rows)
          /\ statcast_data \in SeqsUpTo(rows, MaxRows)
    /\ stadium_info = None
    /\ stadium_name = ""
    /\ choice = ""
    /\ pc = "player"
    /\ NoRanking
    /\ NoFlight
    /\ NoComparing
    /\ NoBatch
    /\ NotComputed

\* lines 242-247: a player is selected, or the user quits
GetPlayerSelection ==
    /\ pc = "player"
    /\ pc' \in {"stadium", "exit"}
    /\ UNCHANGED locals
    /\ UNCHANGED <<STADIUM_DATA, statcast_data, columns, choice, stadium_name,
                   stadium_info, bip_data, home_runs, expected_stats,
                   hitter_stats, match_scores>>
    /\ UNCHANGED ranking
    /\ UNCHANGED stats_locals
    /\ UNCHANGED trajectory
    /\ UNCHANGED comparing
    /\ UNCHANGED batch

\* get_stadium_selection, one turn of its loop (lines 158-176), and main's
\* lines 250-254: the registry's own dict is returned, not a copy
GetStadiumSelection ==
    /\ pc = "stadium"
    /\ \E input \in Inputs :
          LET stadiums_df == get_stadium_dataframe(STADIUM_DATA)
              choice_num  == ParseInt(input)
          IN  /\ choice' = input
              /\ IF lower(input) \in {"quit", "exit", "q"}
                 THEN /\ pc' = "exit"
                      /\ UNCHANGED <<stadium_name, stadium_info>>
                 ELSE IF ~IsNaN(choice_num) /\ 1 <= choice_num
                         /\ choice_num <= Len(stadiums_df)
                 THEN /\ stadium_name' = selected(stadiums_df, choice_num).stadium_name
                      /\ stadium_info' = STADIUM_DATA[stadium_name']
                      /\ pc' = "selected"
                 ELSE /\ pc' = "stadium"
                      /\ UNCHANGED <<stadium_name, stadium_info>>
    /\ UNCHANGED locals
    /\ UNCHANGED <<STADIUM_DATA, statcast_data, columns, bip_data, home_runs,
                   expected_stats, hitter_stats, match_scores>>
    /\ UNCHANGED ranking
    /\ UNCHANGED stats_locals
    /\ UNCHANGED trajectory
    /\ UNCHANGED comparing
    /\ UNCHANGED batch

\* line 257: stadium_info['stadium_name'] = stadium_name.  stadium_info is
\* the dict STADIUM_DATA holds under stadium_name, so the registry's record
\* gets the key too.
TagStadiumInfo ==
    /\ pc = "selected"
    /\ stadium_info' = ("stadium_name" :> stadium_name) @@ stadium_info
    /\ STADIUM_DATA' =
          [STADIUM_DATA EXCEPT ![stadium_name] = ("stadium_name" :> stadium_name) @@ @]
    /\ pc' = "main_fetch"
    /\ UNCHANGED locals
    /\ UNCHANGED <<statcast_data, columns, choice, stadium_name, bip_data,
                   home_runs, expected_stats, hitter_stats, match_scores>>
    /\ UNCHANGED ranking
    /\ UNCHANGED stats_locals
    /\ UNCHANGED trajectory
    /\ UNCHANGED comparing
    /\ UNCHANGED batch

\* lines 259-268
MainFetch ==
    /\ pc = "main_fetch"
    /\ bip_data' = get_hitter_bip_stats(statcast_data, columns)
    /\ pc' = IF Len(bip_data') = 0 THEN "exit" ELSE "main_stats"
    /\ UNCHANGED locals
    /\ UNCHANGED <<STADIUM_DATA, statcast_data, columns, choice, stadium_name,
                   stadium_info, home_runs, expected_stats, hitter_stats,
                   match_scores>>
    /\ UNCHANGED ranking
    /\ UNCHANGED stats_locals
    /\ UNCHANGED trajectory
    /\ UNCHANGED comparing
    /\ UNCHANGED batch

\* lines 270-275
MainExpectedStats ==
    /\ pc = "main_stats"
    /\ expected_stats' =
          calculate_expected_stats_for_stadium(bip_data, columns, stadium_info)
    /\ ExpectedHomeRunsLocals(bip_data, columns, stadium_info)
    /\ pc' = "main_score"
    /\ UNCHANGED <<STADIUM_DATA, statcast_data, columns, choice, stadium_name,
                   stadium_info, bip_data, home_runs, hitter_stats, match_scores>>
    /\ UNCHANGED ranking
    /\ ExpectedStatsLocals(bip_data, columns)
    /\ UNCHANGED trajectory
    /\ UNCHANGED comparing
    /\ UNCHANGED batch

\* lines 277-288: get_hitter_summary_stats fetches the frame again
MainMatchScore ==
    /\ pc = "main_score"
    /\ hitter_stats' =
          get_hitter_summary_stats(get_hitter_bip_stats(statcast_data, columns), columns)
    /\ match_scores' =
          IF hitter_stats' # None
          THEN calculate_stadium_match_score(hitter_stats', stadium_info)
          ELSE match_scores
    /\ pc' = "main_heatmap"
    /\ UNCHANGED locals
    /\ UNCHANGED <<STADIUM_DATA, statcast_data, columns, choice, stadium_name,
                   stadium_info, bip_data, home_runs, expected_stats>>
    /\ UNCHANGED ranking
    /\ UNCHANGED stats_locals
    /\ UNCHANGED trajectory
    /\ UNCHANGED comparing
    /\ UNCHANGED batch

\* lines 290-307: plot_bip_heatmap and draw_stadium_fence only read
MainHeatmap ==
    /\ pc = "main_heatmap"
    /\ pc' = "done"
    /\ UNCHANGED locals
    /\ UNCHANGED <<STADIUM_DATA, statcast_data, columns, choice, stadium_name,
                   stadium_info, bip_data, home_runs, expected_stats,
                   hitter_stats, match_scores>>
    /\ UNCHANGED ranking
    /\ UNCHANGED stats_locals
    /\ UNCHANGED trajectory
    /\ UNCHANGED comparing
    /\ UNCHANGED batch

MainNext ==
    \/ GetPlayerSelection
    \/ GetStadiumSelection
    \/ TagStadiumInfo
    \/ MainFetch
    \/ MainExpectedStats
    \/ MainMatchScore
    \/ MainHeatmap

MainSpec == MainInit /\ [][MainNext]_vars

----------------------------------------------------------------------------
(* Properties of calculate_expected_home_runs                              *)

\* calculate_expected_home_runs has returned (direct calls)
HomeRunsReturned == pc \in {"stats", "summary", "score", "done"}

\* kept row i has a hit distance and a fence distance, and the hit distance
\* is at least the fence distance
AtOrBeyondFence(i) ==
    /\ ~IsNaN(hit_distances[i]) /\ ~IsNaN(fence_distances[i])
    /\ 15000 * hit_distances[i] >= fence_distances[i]

\* kept row i has a hit distance and a fence distance, and the hit distance
\* is strictly less than the fence distance
ShortOfFence(i) ==
    /\ ~IsNaN(hit_distances[i]) /\ ~IsNaN(fence_distances[i])
    /\ 15000 * hit_distances[i] < fence_distances[i]

\* kept row i, flown by the flight model from its launch speed and launch
\* angle, arrives at its fence distance higher than the stadium's wall
ClearsWall(i) ==
    LET row == kept_rows(bip_data, columns)[i]
    IN  clears_wall(row.launch_speed, row.launch_angle, fence_distances[i],
                    stadium_info)

C2_DistanceGate ==
    HomeRunsReturned =>
        /\ \A i \in 1..Len(reached) : ShortOfFence(i) => ~reached[i]
        /\ home_runs <=
              Len(reached) - Cardinality({i \in 1..Len(reached) : ShortOfFence(i)})

\* a hard-hit ball (105 mph) short of its fence has been through the count,
\* next to one that was counted
C2_Witness ==
    /\ HomeRunsReturned
    /\ home_runs > 0
    /\ \E i \in 1..Len(reached) :
          /\ ShortOfFence(i)
          /\ kept_rows(bip_data, columns)[i].launch_speed = 105

\* C3: an event with exit velocity 0 is never counted as a home run, with a
\* measured hit distance and with an estimated one.
C3_NoPowerFloor ==
    HomeRunsReturned =>
        \A i \in 1..Len(reached) :
            kept_rows(bip_data, columns)[i].launch_speed = 0 => ~reached[i]

\* C4: whether an event is counted depends only on that event and the
\* stadium: however the batch is cut in two, the count of the whole batch is
\* the sum of the counts of the two parts.
C4_CountIsAdditive ==
    HomeRunsReturned =>
        \A k \in 0..Len(bip_data) :
            home_runs =
                calculate_expected_home_runs(SubSeq(bip_data, 1, k), columns,
                                             stadium_info)
                + calculate_expected_home_runs(SubSeq(bip_data, k + 1, Len(bip_data)),
                                               columns, stadium_info)

\* C5: the fence distance a ball is compared against passes through the
\* stadium's anchors: left_field at -45 degrees, left_center at -22.5,
\* center_field at 0, right_center at +22.5 and right_field at +45.
C5_FenceThroughAnchors ==
    HomeRunsReturned =>
        \A i \in 1..Len(angles) :
            /\ angles[i] = -45000 =>
                  fence_distances[i] = 30000 * left_field_of(stadium_info)
            /\ angles[i] = -22500 /\ "left_center" \in DOMAIN stadium_info =>
                  fence_distances[i] = 30000 * stadium_info.left_center
            /\ angles[i] = 0 =>
                  fence_distances[i] = 30000 * center_field_of(stadium_info)
            /\ angles[i] = 22500 /\ "right_center" \in DOMAIN stadium_info =>
                  fence_distances[i] = 30000 * stadium_info.right_center
            /\ angles[i] = 45000 =>
                  fence_distances[i] = 30000 * right_field_of(stadium_info)

\* C6: for a direction outside [-45, +45] degrees the fence distance is that
\* of the nearest foul-line anchor (left_field below -45, right_field above
\* +45), and no fence distance is negative.
C6_FenceClampedOutsideFoulLines ==
    HomeRunsReturned =>
        \A i \in 1..Len(angles) :
            ~IsNaN(angles[i]) =>
                /\ angles[i] < -45000 =>
                      fence_distances[i] = 30000 * left_field_of(stadium_info)
                /\ angles[i] > 45000 =>
                      fence_distances[i] = 30000 * right_field_of(stadium_info)
                /\ fence_distances[i] >= 0

----------------------------------------------------------------------------
(* Properties of the aggregation                                           *)

\* calculate_expected_stats_for_stadium has returned (direct calls)
StatsReturned == pc \in {"summary", "score", "done"}

\* C7 (as amended): aggregating a batch of zero events returns the empty
\* record, in which no field (total_bip included) is defined, and the home
\* run count of such a batch is 0.
C7_EmptyBatchReturnsEmptyRecord ==
    StatsReturned /\ Len(bip_data) = 0 =>
        /\ expected_stats = EmptyDict
        /\ home_runs = 0

\* the provider returned rows, none of them a ball in play with both
\* values, and the aggregation of the empty batch has returned
C7_Witness ==
    /\ StatsReturned
    /\ Len(statcast_data) > 0
    /\ Len(bip_data) = 0
    /\ expected_stats = EmptyDict

\* C7 (as stated): aggregating a batch of zero events returns a result whose
\* total_bip is 0 and whose rate fields are zero or undefined.
C7_EmptyBatchHasZeroTotal ==
    StatsReturned /\ Len(bip_data) = 0 =>
        /\ "total_bip" \in DOMAIN expected_stats
        /\ expected_stats["total_bip"] = 0
        /\ \A f \in {"expected_hr_rate", "actual_hr_rate"} \cap DOMAIN expected_stats :
              expected_stats[f] \in {RatInt(0), NaNRat}

\* a row has both exit velocity and launch angle
HasBoth(row) == ~IsNaN(row.launch_speed) /\ ~IsNaN(row.launch_angle)

\* the provider's rows in play (type X) that have both values
InPlayWithBoth ==
    {i \in 1..Len(statcast_data) :
        statcast_data[i].type = "X" /\ HasBoth(statcast_data[i])}

\* C8: every event that contributes to total_bip and to the xBA/xSLG means
\* has both exit velocity and launch angle: total_bip counts exactly the
\* provider's balls in play that have both, the means are numbers, and the
\* xBA mean is the sum of those events' xBA over their number (an event
\* missing a value adds neither to the sum nor to the divisor).
C8_MissingValuesExcluded ==
    StatsReturned /\ expected_stats # EmptyDict =>
        /\ \A i \in 1..Len(bip_data) : HasBoth(bip_data[i])
        /\ expected_stats.total_bip = Cardinality(InPlayWithBoth)
        /\ IsNumber(expected_stats.expected_ba)
        /\ IsNumber(expected_stats.expected_slg)
        /\ expected_stats.expected_ba =
              Rat(SumSeq([i \in 1..Len(statcast_data) |->
                            IF i \in InPlayWithBoth
                            THEN calculate_xba_from_ev_la(statcast_data[i].launch_speed,
                                                          statcast_data[i].launch_angle)
                            ELSE 0]),
                  9000 * Cardinality(InPlayWithBoth))

\* a ball in play that lacks a value came with one that has both, and the
\* aggregation has returned
C8_Witness ==
    /\ StatsReturned
    /\ expected_stats # EmptyDict
    /\ \E i \in 1..Len(statcast_data) :
          statcast_data[i].type = "X" /\ ~HasBoth(statcast_data[i])
    /\ expected_stats.total_bip < Len(statcast_data)

\* C9: a stadium record with no fields yields the same expected home run
\* count, expected statistics and match score as the record that states the
\* defaults: park factor 1.0, fences at 330/400/330 ft, walls of 8 ft.
C9_EmptyRecordEqualsExplicitDefaults ==
    stadium_info = EmptyDict =>
        /\ HomeRunsReturned =>
              home_runs =
                  calculate_expected_home_runs(bip_data, columns, ExplicitDefaults)
        /\ StatsReturned =>
              expected_stats =
                  calculate_expected_stats_for_stadium(bip_data, columns,
                                                       ExplicitDefaults)
        /\ pc = "done" =>
              match_scores =
                  calculate_stadium_match_score(hitter_stats, ExplicitDefaults)

\* all three calculations have returned for the record with no fields, with
\* a home run counted and a score computed
C9_Witness ==
    /\ pc = "done"
    /\ stadium_info = EmptyDict
    /\ home_runs > 0
    /\ expected_stats # EmptyDict
    /\ match_scores # None

----------------------------------------------------------------------------
(* Properties of the registry                                              *)

\* C10: after any sequence of operations, a complete interactive session
\* included, every record of STADIUM_DATA has exactly the keys and values it
\* had at load.
C10_RegistryReadOnly ==
    /\ DOMAIN STADIUM_DATA = DOMAIN STADIUM_DATA_AT_LOAD
    /\ \A name \in DOMAIN STADIUM_DATA_AT_LOAD :
          STADIUM_DATA[name] = STADIUM_DATA_AT_LOAD[name]

----------------------------------------------------------------------------
(* Properties of the expected statistics                                   *)

\* a stadium record with its altitude set
AtAltitude(stadium, altitude) ==
    [k \in DOMAIN stadium \cup {"altitude"} |->
        IF k = "altitude" THEN altitude ELSE stadium[k]]

\* C11: for the same batch and two stadiums identical except for altitude
\* (0 ft and 5280 ft), the expected home run count at the higher stadium is
\* at least the count at the sea-level stadium.
C11_AltitudeScenario ==
    HomeRunsReturned /\ "altitude" \in DOMAIN stadium_info
                     /\ Get(stadium_info, "altitude", NaN) = 0 =>
        calculate_expected_home_runs(bip_data, columns,
                                     AtAltitude(stadium_info, 5280)) >= home_runs

\* the event of the scenario (105 mph, 28 degrees, 410 ft) has been counted
\* at a sea-level stadium
C11_Witness ==
    /\ HomeRunsReturned
    /\ "altitude" \in DOMAIN stadium_info
    /\ stadium_info.altitude = 0
    /\ home_runs > 0
    /\ \E i \in 1..Len(bip_data) :
          /\ bip_data[i].launch_speed = 105
          /\ bip_data[i].launch_angle = 28
          /\ "hit_distance_sc" \in columns
          /\ bip_data[i].hit_distance_sc = 410

\* C12: for a non-empty batch, expected_hr_count is the number of events of
\* the batch classified as home runs at the stadium, total_bip is the number
\* of events of the batch, and expected_hr_rate is their quotient.
C12_ExpectedHomeRunCountAndRate ==
    StatsReturned /\ expected_stats # EmptyDict =>
        LET count == Cardinality({i \in 1..Len(reached) : reached[i]})
            rate  == expected_stats.expected_hr_rate
        IN  /\ expected_stats.expected_hr_count = count
            /\ expected_stats.total_bip = Len(bip_data)
            /\ rate[2] > 0
            /\ rate[1] * Len(bip_data) = count * rate[2]

\* a batch of which one event is classified a home run and another is not
\* has been aggregated
C12_Witness ==
    /\ StatsReturned
    /\ expected_stats # EmptyDict
    /\ expected_stats.expected_hr_count > 0
    /\ expected_stats.expected_hr_count < expected_stats.total_bip

\* C13: actual_hr_count is the number of events of the batch labelled
\* home_run, whatever the stadium, and 0 when the batch has no outcome
\* labels; actual_hr_rate is actual_hr_count / total_bip.
C13_ActualHomeRunCountAndRate ==
    StatsReturned /\ expected_stats # EmptyDict =>
        LET count == IF "events" \in columns
                     THEN Cardinality({i \in 1..Len(bip_data) :
                                          bip_data[i].events = "home_run"})
                     ELSE 0
            rate  == expected_stats.actual_hr_rate
        IN  /\ expected_stats.actual_hr_count = count
            /\ rate[2] > 0
            /\ rate[1] * expected_stats.total_bip = count * rate[2]
            /\ \A stadium \in StadiumArgs :
                  calculate_expected_stats_for_stadium(bip_data, columns,
                                                       stadium).actual_hr_count
                      = expected_stats.actual_hr_count

\* a batch with one event labelled home_run and one labelled otherwise has
\* been aggregated
C13_Witness ==
    /\ StatsReturned
    /\ expected_stats # EmptyDict
    /\ "events" \in columns
    /\ expected_stats.actual_hr_count = 1
    /\ \E i \in 1..Len(bip_data) : bip_data[i].events = "field_out"

\* C14: park_adjusted_ba = expected_ba * (1 + (park_factor - 1) * 0.1) and
\* park_adjusted_slg = expected_slg * park_factor; with park factor 1.0 both
\* equal the unadjusted means, with a park factor above 1 neither is below
\* its mean, with one below 1 neither is above it.
C14_ParkAdjustment ==
    StatsReturned /\ expected_stats # EmptyDict =>
        LET hundredths == Get(stadium_info, "park_factor", 100)
            ba      == expected_stats.expected_ba
            slg     == expected_stats.expected_slg
            adj_ba  == expected_stats.park_adjusted_ba
            adj_slg == expected_stats.park_adjusted_slg
        IN  /\ expected_stats.park_factor = Rat(hundredths, 100)
            /\ adj_ba = Rat(ba[1] * (900 + hundredths), ba[2] * 1000)
            /\ adj_slg = Rat(slg[1] * hundredths, slg[2] * 100)
            /\ hundredths = 100 => adj_ba = ba /\ adj_slg = slg
            /\ hundredths > 100 => RatGe(adj_ba, ba) /\ RatGe(adj_slg, slg)
            /\ hundredths < 100 => RatGe(ba, adj_ba) /\ RatGe(slg, adj_slg)

\* a batch has been aggregated at a stadium whose park factor is above 1,
\* and both adjusted values are above their means
C14_Witness ==
    /\ StatsReturned
    /\ expected_stats # EmptyDict
    /\ Get(stadium_info, "park_factor", 100) > 100
    /\ RatGt(expected_stats.park_adjusted_ba, expected_stats.expected_ba)
    /\ RatGt(expected_stats.park_adjusted_slg, expected_stats.expected_slg)

\* C15: the heuristic xBA of an event lies in [0.1, 0.5]; it is 0.1 whenever
\* the exit velocity is at most 70 or the launch angle is 30 or more degrees
\* away from 10, 0.5 when the exit velocity is at least 100 and the launch
\* angle is 10, and between the clips it is
\* 0.1 + 0.4 * (ev - 70)/30 * (1 - |la - 10|/30).
C15_HeuristicXba ==
    StatsReturned /\ expected_stats # EmptyDict
                  /\ "estimated_ba_using_speedangle" \notin columns
                  /\ "xba" \notin columns =>
        /\ Len(xba_values) = Len(bip_data)
        /\ \A i \in 1..Len(xba_values) :
              LET ev  == bip_data[i].launch_speed
                  off == Abs(bip_data[i].launch_angle - 10)
              IN  /\ 900 <= xba_values[i] /\ xba_values[i] <= 4500
                  /\ ev <= 70 \/ off >= 30 => xba_values[i] = 900
                  /\ ev >= 100 /\ off = 0 => xba_values[i] = 4500
                  /\ 70 < ev /\ ev < 100 /\ off < 30 =>
                        xba_values[i] = 900 + 4 * (ev - 70) * (30 - off)

\* an event 80 degrees off the best launch angle, at full exit velocity, has
\* been given its xBA
C15_Witness ==
    /\ StatsReturned
    /\ \E i \in 1..Len(xba_values) :
          /\ bip_data[i].launch_speed = 120
          /\ bip_data[i].launch_angle = 90
          /\ xba_values[i] = 900

\* the value a measured column holds for an event, or NaN when the batch
\* has no such column
Measured(i, column) ==
    IF column \in columns THEN bip_data[i][column] ELSE NaN

\* C16 (as amended): when the batch carries a measured xBA column
\* (estimated_ba_using_speedangle, else xba), every event uses its measured
\* value, and 0.3 where that value is missing; only a batch without such a
\* column uses the heuristic.  When the batch carries a measured slugging
\* column, every event uses its measured value, and 0.4 where it is missing;
\* otherwise an event's xSLG is 1.5 times the xBA used for it.
C16_MeasuredColumnsWithFill ==
    StatsReturned /\ expected_stats # EmptyDict =>
        /\ Len(xba_values) = Len(bip_data)
        /\ Len(xslg_values) = Len(bip_data)
        /\ \A i \in 1..Len(bip_data) :
              /\ xba_values[i] =
                    IF "estimated_ba_using_speedangle" \in columns
                    THEN (IF IsNaN(bip_data[i].estimated_ba_using_speedangle)
                          THEN 2700 ELSE bip_data[i].estimated_ba_using_speedangle)
                    ELSE IF "xba" \in columns
                    THEN (IF IsNaN(bip_data[i].xba) THEN 2700 ELSE bip_data[i].xba)
                    ELSE calculate_xba_from_ev_la(bip_data[i].launch_speed,
                                                  bip_data[i].launch_angle)
              /\ xslg_values[i] =
                    IF "estimated_slg_using_speedangle" \in columns
                    THEN (IF IsNaN(bip_data[i].estimated_slg_using_speedangle)
                          THEN 7200
                          ELSE bip_data[i].estimated_slg_using_speedangle)
                    ELSE 3 * xba_values[i]
        /\ expected_stats.expected_ba =
              Rat(SumSeq(xba_values), 9000 * Len(bip_data))
        /\ expected_stats.expected_slg =
              Rat(SumSeq(xslg_values), 18000 * Len(bip_data))

\* an event whose measured xBA is missing, in a batch that carries the
\* column, has been aggregated next to one that has its measured value
C16_Witness ==
    /\ StatsReturned
    /\ "estimated_ba_using_speedangle" \in columns
    /\ \E i, j \in 1..Len(bip_data) :
          /\ IsNaN(bip_data[i].estimated_ba_using_speedangle)
          /\ xba_values[i] = 2700
          /\ xba_values[j] = 6300

\* C16 (as stated): an event whose measured xBA is unavailable uses its
\* heuristic xBA, a measured value is used when present, and an event's
\* xSLG is 1.5 times its xBA unless a measured slugging value exists for it.
C16_HeuristicWhereMeasuredMissing ==
    StatsReturned /\ expected_stats # EmptyDict =>
        \A i \in 1..Len(bip_data) :
            LET measured_ba ==
                    IF ~IsNaN(Measured(i, "estimated_ba_using_speedangle"))
                    THEN Measured(i, "estimated_ba_using_speedangle")
                    ELSE Measured(i, "xba")
                measured_slg == Measured(i, "estimated_slg_using_speedangle")
            IN  /\ xba_values[i] =
                      IF IsNaN(measured_ba)
                      THEN calculate_xba_from_ev_la(bip_data[i].launch_speed,
                                                    bip_data[i].launch_angle)
                      ELSE measured_ba
                /\ xslg_values[i] =
                      IF IsNaN(measured_slg) THEN 3 * xba_values[i]
                      ELSE measured_slg

----------------------------------------------------------------------------
(* Properties of calculate_stadium_match_score                             *)

\* calculate_stadium_match_score has returned a score
ScoreReturned == pc = "done" /\ match_scores # None /\ hitter_stats # None

\* the stadium's park factor as a fraction (1.0 when the record has none)
ParkFactorOfStadium == Rat(Get(stadium_info, "park_factor", 100), 100)

\* the inputs of the worked example: average exit velocity 95, hard hit
\* rate 0.5, no avg_distance, park factor 1.1
WorkedExample ==
    /\ hitter_stats = [avg_exit_velocity |-> RatInt(95), hard_hit_rate |-> Rat(1, 2)]
    /\ ParkFactorOfStadium = Rat(11, 10)

\* C17: with exit velocity and hard hit rate given, exit_velocity_score is
\* avg_exit_velocity * park_factor, hard_hit_score is hard_hit_rate *
\* park_factor * 100 and overall_match_score is 0.3 * exit_velocity_score +
\* 0.3 * hard_hit_score + 0.2 * distance_score + 0.2 * (park_factor * 20);
\* the worked example gives 104.5, 55, 0.55 and 52.36.
C17_MatchScoreFormulas ==
    ScoreReturned /\ {"avg_exit_velocity", "hard_hit_rate"} \subseteq DOMAIN hitter_stats =>
        LET pf == ParkFactorOfStadium
        IN  /\ match_scores.exit_velocity_score =
                  RatMul(hitter_stats.avg_exit_velocity, pf)
            /\ match_scores.hard_hit_score =
                  RatMul(RatMul(hitter_stats.hard_hit_rate, pf), RatInt(100))
            /\ RatMul(RatInt(10), match_scores.overall_match_score) =
                  RatAdd(RatAdd(RatMul(RatInt(3), match_scores.exit_velocity_score),
                                RatMul(RatInt(3), match_scores.hard_hit_score)),
                         RatAdd(RatMul(RatInt(2), match_scores.distance_score),
                                RatMul(RatInt(40), pf)))
            /\ WorkedExample =>
                  /\ match_scores.exit_velocity_score = Rat(1045, 10)
                  /\ match_scores.hard_hit_score = RatInt(55)
                  /\ match_scores.distance_score = Rat(55, 100)
                  /\ match_scores.overall_match_score = Rat(5236, 100)

\* the worked example has been scored
C17_Witness ==
    /\ ScoreReturned
    /\ WorkedExample
    /\ match_scores.overall_match_score = Rat(5236, 100)

\* C18: with an avg_distance that is a nonzero number, distance_score is
\* max(0, (avg_distance - shortest field dimension) / 50) * park_factor, 0
\* when avg_distance does not exceed the shortest dimension (and, max(0, x)
\* being 0 for a NaN x, when it is NaN); with avg_distance absent, None or
\* zero it is hard_hit_rate * park_factor, 0 when hard_hit_rate is absent;
\* it is never negative.
C18_DistanceScore ==
    ScoreReturned =>
        LET d        == Get(hitter_stats, "avg_distance", Absent)
            hh       == Get(hitter_stats, "hard_hit_rate", Absent)
            hundredths == Get(stadium_info, "park_factor", 100)
            shortest == Min2(Get(stadium_info, "left_field", 330),
                             Min2(Get(stadium_info, "center_field", 400),
                                  Get(stadium_info, "right_field", 330)))
            score    == match_scores.distance_score
        IN  /\ IsNumber(d) /\ d[1] # 0 =>
                  score = IF d[1] <= shortest * d[2] THEN RatInt(0)
                          ELSE Rat((d[1] - shortest * d[2]) * hundredths,
                                   d[2] * 5000)
            /\ IsNaNRat(d) => score = RatInt(0)
            /\ d \in {Absent, NoneRat, RatInt(0)} =>
                  score = IF hh = Absent THEN RatInt(0)
                          ELSE Rat(hh[1] * hundredths, hh[2] * 100)
            /\ RatGe(score, RatInt(0))

\* a hitter whose average distance is short of every field dimension has
\* been scored
C18_Witness ==
    /\ ScoreReturned
    /\ "avg_distance" \in DOMAIN hitter_stats
    /\ hitter_stats.avg_distance = RatInt(300)
    /\ match_scores.distance_score = RatInt(0)

\* C19: the park label is Hitter-friendly exactly when the park factor is
\* above 1.05, Pitcher-friendly exactly when it is below 0.95 and Neutral
\* otherwise (1.05 and 0.95 themselves are Neutral); the label of the match
\* score and the label of the numbered stadium list agree, for the scored
\* stadium and for every record of the registry.
C19_ParkLabels ==
    ScoreReturned =>
        LET hundredths == Get(stadium_info, "park_factor", 100)
        IN  /\ match_scores.stadium_advantage =
                  (IF hundredths > 105 THEN "Hitter-friendly"
                   ELSE IF hundredths < 95 THEN "Pitcher-friendly"
                   ELSE "Neutral")
            /\ park_type(ParkFactorOfStadium) = match_scores.stadium_advantage
            /\ \A name \in DOMAIN STADIUM_DATA :
                  park_type(Rat(STADIUM_DATA[name].park_factor, 100)) =
                      calculate_stadium_match_score(hitter_stats,
                                                    STADIUM_DATA[name]).stadium_advantage

\* a stadium whose park factor is exactly 1.05 has been scored and labelled
\* Neutral
C19_Witness ==
    /\ ScoreReturned
    /\ Get(stadium_info, "park_factor", 100) = 105
    /\ match_scores.stadium_advantage = "Neutral"

----------------------------------------------------------------------------
(* Properties of get_best_stadium_matches                                  *)

\* the rows of the table that are the named hitter's
HitterRows ==
    {i \in 1..Len(comparisons_df) : comparisons_df[i].player_name = hitter_name}

\* C20: get_best_stadium_matches returns only rows of the named hitter,
\* min(top_n, number of the hitter's rows) of them, in non-increasing score
\* order, no omitted row of the hitter scoring higher than a returned one,
\* equal scores in input order; nothing for a hitter not in the table.
C20_BestStadiumMatches ==
    pc = "done" =>
        /\ Len(best_matches) = Min2(top_n, Cardinality(HitterRows))
        /\ \A i \in 1..Len(best_matches) : best_matches[i].player_name = hitter_name
        /\ \A i \in 1..(Len(best_matches) - 1) :
              best_matches[i].overall_match_score
                  >= best_matches[i + 1].overall_match_score
        /\ \E from \in [1..Len(best_matches) -> HitterRows] :
              /\ \A i \in 1..Len(best_matches) : comparisons_df[from[i]] = best_matches[i]
              /\ \A i, j \in 1..Len(best_matches) :
                    /\ i # j => from[i] # from[j]
                    /\ i < j /\ best_matches[i].overall_match_score
                                   = best_matches[j].overall_match_score
                          => from[i] < from[j]
              /\ \A omitted \in HitterRows :
                    (\A i \in 1..Len(best_matches) : from[i] # omitted) =>
                        \A i \in 1..Len(best_matches) :
                            comparisons_df[omitted].overall_match_score
                                <= best_matches[i].overall_match_score
        /\ HitterRows = {} => best_matches = <<>>

\* two of the hitter's three rows, two of them with equal scores, have been
\* returned
C20_Witness ==
    /\ pc = "done"
    /\ Cardinality(HitterRows) = 3
    /\ top_n = 2
    /\ Len(best_matches) = 2
    /\ best_matches[1].overall_match_score = best_matches[2].overall_match_score
    /\ best_matches[1].stadium_name # best_matches[2].stadium_name

----------------------------------------------------------------------------
(* Properties of get_stadium_rankings                                      *)

\* the rows of the table that are of the stadium
RowsOfStadium(name) ==
    {i \in 1..Len(comparisons_df) : comparisons_df[i].stadium_name = name}

RECURSIVE SumOfScores(_)
SumOfScores(rows) ==
    IF rows = {} THEN 0
    ELSE LET i == CHOOSE r \in rows : TRUE
         IN  comparisons_df[i].overall_match_score + SumOfScores(rows \ {i})

\* C21: get_stadium_rankings returns one row per distinct stadium_name of
\* the table, with the mean and the count of that stadium's scores, the
\* stadium's park_factor and team as the table has them, ordered by
\* avg_match_score descending.
C21_StadiumRankings ==
    pc = "done" /\ Len(comparisons_df) > 0 =>
        /\ {stadium_rankings[k].stadium_name : k \in 1..Len(stadium_rankings)}
              = {comparisons_df[i].stadium_name : i \in 1..Len(comparisons_df)}
        /\ \A k, l \in 1..Len(stadium_rankings) :
              k # l => stadium_rankings[k].stadium_name # stadium_rankings[l].stadium_name
        /\ \A k \in 1..Len(stadium_rankings) :
              LET rows == RowsOfStadium(stadium_rankings[k].stadium_name)
              IN  /\ stadium_rankings[k].num_hitters = Cardinality(rows)
                  /\ stadium_rankings[k].avg_match_score
                        = Rat(SumOfScores(rows), Cardinality(rows))
                  /\ \A i \in rows :
                        /\ comparisons_df[i].park_factor = stadium_rankings[k].park_factor
                        /\ comparisons_df[i].team = stadium_rankings[k].team
        /\ \A k \in 1..(Len(stadium_rankings) - 1) :
              RatGe(stadium_rankings[k].avg_match_score,
                    stadium_rankings[k + 1].avg_match_score)

\* two stadiums have been ranked, the one with two hitters and the better
\* mean first although its name sorts last
C21_Witness ==
    /\ pc = "done"
    /\ Len(comparisons_df) = 3
    /\ Len(stadium_rankings) = 2
    /\ stadium_rankings[1].stadium_name = "Yankee Stadium"
    /\ stadium_rankings[1].num_hitters = 2
    /\ stadium_rankings[1].avg_match_score = Rat(103, 2)
    /\ stadium_rankings[2].avg_match_score = RatInt(50)

----------------------------------------------------------------------------
(* Properties of the flight model                                          *)

\* the stadium of the flight, with a wall of the given height
FlightStadium(wall_height) ==
    [altitude |-> flight_args.altitude, wall_height |-> wall_height]

\* the step-by-step integration returns what height_at_distance, computed
\* in one piece, returns
IntegrationAgreesWithFly ==
    pc = "done" =>
        ball_height = height_at_distance(flight_args.launch_speed,
                                         flight_args.launch_angle,
                                         flight_args.target,
                                         density(flight_args.altitude))

\* the call has returned, and what it returned is right: the height is the
\* flight's height where it stopped, the flight is reported as arrived
\* exactly if it stopped at the target, and a flight that stopped short is on
\* the ground and clears no wall
ReturnedRight ==
    pc = "done" =>
        /\ ~InFlight
        /\ ball_height.height = flight.y
        /\ ball_height.arrived <=> flight.x >= flight_args.target
        /\ ~ball_height.arrived =>
              /\ ball_height.height <= 0
              /\ \A wall_height \in {0, 8} :
                    ~clearance(ball_height, FlightStadium(wall_height))

\* C22: the integration behind height_at_distance terminates for every
\* input; a step is taken only while x < target_distance and y > 0, so it
\* stops at the first step where x >= target_distance or y <= 0; a result
\* produced because y <= 0 came before x reached the target is reported as
\* not arrived and is not used as a wall-clearance height.
C22_IntegrationTerminates ==
    /\ <>(pc = "done")
    /\ []ReturnedRight
    /\ [][flight' # flight => InFlight]_vars

\* a flight of many steps has come down short of its target
C22_Witness ==
    /\ pc = "done"
    /\ flight_args.launch_speed = 60
    /\ flight_args.target = 400000
    /\ flight.x > 30000
    /\ flight.y <= 0
    /\ ~ball_height.arrived

\* altitudes in feet, below and above sea level
AltitudeGrid == {-1000, 0, 100, 1000, 5280, 10000, 30000}

\* the result of the same launch at the same target at another altitude
AtOtherAltitude(altitude) ==
    height_at_distance(flight_args.launch_speed, flight_args.launch_angle,
                       flight_args.target, density(altitude))

\* C23 (as amended): air density is strictly decreasing in altitude, and for
\* a fixed launch speed, launch angle and target distance a ball that
\* arrives at the target at the lower altitude arrives at it at the higher
\* altitude too; the returned heights are not ordered.
C23_DensityDecreasesBallCarries ==
    pc = "done" =>
        /\ \A a1, a2 \in AltitudeGrid : a1 > a2 => density(a1) < density(a2)
        /\ \A a2 \in Altitudes :
              flight_args.altitude > a2 =>
                  /\ density(flight_args.altitude) < density(a2)
                  /\ AtOtherAltitude(a2).arrived => ball_height.arrived

\* a ball has arrived at a target at altitude that it falls short of at sea
\* level
C23_Witness ==
    /\ pc = "done"
    /\ flight_args.altitude = 5280
    /\ ball_height.arrived
    /\ flight.x > 0
    /\ ~AtOtherAltitude(0).arrived

\* C23 (as stated): air density is strictly decreasing in altitude, and for
\* a fixed launch speed, launch angle and target distance the height at the
\* target computed with density(a1) is >= the height computed with
\* density(a2) whenever a1 > a2.
C23_HeightMonotoneInAltitude ==
    pc = "done" =>
        \A a2 \in Altitudes :
            flight_args.altitude > a2 =>
                /\ density(flight_args.altitude) < density(a2)
                /\ ball_height.height >= AtOtherAltitude(a2).height

----------------------------------------------------------------------------
(* Properties of the fallback chain for hit directions                     *)

\* row i of the batch has valid hit coordinates
ValidCoordinates(i) ==
    /\ {"hc_x", "hc_y"} \subseteq columns
    /\ ~IsNaN(bip_data[i].hc_x) /\ ~IsNaN(bip_data[i].hc_y)
    /\ 0 < bip_data[i].hc_x /\ bip_data[i].hc_x <= 250
    /\ 0 < bip_data[i].hc_y /\ bip_data[i].hc_y <= 250

\* the rows of the batch with valid hit coordinates
ValidRows == {i \in 1..Len(bip_data) : ValidCoordinates(i)}

\* the k-th smallest element of a set of numbers
RECURSIVE KthOf(_, _)
KthOf(set, k) ==
    LET least == CHOOSE i \in set : \A j \in set : i <= j
    IN  IF k = 1 THEN least ELSE KthOf(set \ {least}, k - 1)

\* C24: calculate_expected_home_runs takes the directions (1) from hc_x and
\* hc_y when the batch has an event with valid coordinates, whether or not
\* it has spray angles; (2) from spray_angle only when no event has valid
\* coordinates; (3) as 0 degrees for every event only when there are neither
\* valid coordinates nor spray angles.
C24_DirectionFallbackChain ==
    HomeRunsReturned /\ Len(bip_data) > 0 =>
        /\ ValidRows # {} =>
              /\ Len(angles) = Cardinality(ValidRows)
              /\ \A k \in 1..Len(angles) :
                    LET row == bip_data[KthOf(ValidRows, k)]
                    IN  angles[k] = arctan2_degrees(5 * (row.hc_x - 125), 5 * row.hc_y)
        /\ ValidRows = {} /\ "spray_angle" \in columns =>
              /\ Len(angles) = Len(bip_data)
              /\ \A i \in 1..Len(angles) :
                    angles[i] = spray_direction(hit_distances[i], bip_data[i].spray_angle)
        /\ ValidRows = {} /\ "spray_angle" \notin columns =>
              /\ Len(angles) = Len(bip_data)
              /\ \A i \in 1..Len(angles) : angles[i] = 0

\* a batch with spray angles and one event with valid coordinates out of
\* two has been given the direction of that event's coordinates
C24_Witness ==
    /\ HomeRunsReturned
    /\ "spray_angle" \in columns
    /\ Len(bip_data) = 2
    /\ ValidRows = {2}
    /\ bip_data[2].hc_x = 25
    /\ angles = <<-45000>>
    /\ bip_data[2].spray_angle = 30000

----------------------------------------------------------------------------
(* Properties of compare_hitter_to_all_stadiums                            *)

\* the match-score keys of a comparison row
ScoreKeys ==
    {"exit_velocity_score", "hard_hit_score", "distance_score",
     "park_factor_boost", "overall_match_score", "expected_home_runs",
     "stadium_advantage"}

\* C25: compare_hitter_to_all_stadiums returns an empty table when the
\* hitter has no summary statistics; otherwise one row for each stadium of
\* the registry, in registry order, with the player_id and player_name
\* passed in, the stadium's team and park_factor, and the match scores
\* computed against that stadium.
C25_OneRowPerStadium ==
    pc = "compared" =>
        /\ hitter_stats = None => comparisons = <<>>
        /\ hitter_stats # None =>
              /\ Len(comparisons) = Len(STADIUM_NAMES)
              /\ \A i \in 1..Len(comparisons) :
                    LET stadium == STADIUM_DATA[STADIUM_NAMES[i]]
                        scores  == calculate_stadium_match_score(hitter_stats, stadium)
                    IN  /\ comparisons[i].stadium_name = STADIUM_NAMES[i]
                        /\ comparisons[i].player_id = player_id
                        /\ comparisons[i].player_name = player_name
                        /\ comparisons[i].team = stadium.team
                        /\ comparisons[i].park_factor = stadium.park_factor
                        /\ \A key \in ScoreKeys : comparisons[i][key] = scores[key]

\* a hitter with statistics has been compared: the rows of Yankee Stadium
\* and Coors Field differ in their scores
C25_Witness ==
    /\ pc = "compared"
    /\ hitter_stats # None
    /\ Len(comparisons) = 3
    /\ comparisons[1].stadium_advantage = "Neutral"
    /\ comparisons[3].stadium_advantage = "Hitter-friendly"
    /\ RatGt(comparisons[3].overall_match_score, comparisons[1].overall_match_score)

----------------------------------------------------------------------------
(* Properties of compare_all_hitters_to_stadiums                           *)

\* the plate appearances of the hitter with the id
PlateAppearancesOf(id) == all_hitters[id].PA

\* the hitter with the id has been taken by the loop
Processed(id) == \E k \in 1..Len(processing) : processing[k] = id

\* the provider has a ball in play for the hitter with the id
YieldsData(id) == Len(get_hitter_bip_stats(statcast_of[id], columns)) > 0

\* a limit has been given
TopNGiven == ~IsNaN(top_n)

\* the hitters taken have at least min_pa plate appearances, are taken once
\* each in descending order of plate appearances, none left out has more
\* than one taken, and none is left out unless a limit is given
TakenByPlateAppearances ==
    /\ \A k \in 1..Len(processing) : PlateAppearancesOf(processing[k]) >= min_pa
    /\ \A k, l \in 1..Len(processing) : k # l => processing[k] # processing[l]
    /\ \A k \in 1..(Len(processing) - 1) :
          PlateAppearancesOf(processing[k]) >= PlateAppearancesOf(processing[k + 1])
    /\ \A id \in 1..Len(all_hitters) :
          PlateAppearancesOf(id) >= min_pa /\ ~Processed(id) =>
              /\ TopNGiven
              /\ \A k \in 1..Len(processing) :
                    PlateAppearancesOf(processing[k]) >= PlateAppearancesOf(id)

\* the result holds the rows of the hitters taken that yield data, in the
\* order they were taken, and no other row
RowsOfHittersWithData ==
    LET with_data == SelectSeq(processing, YieldsData)
    IN  /\ Len(comparisons_df) = Len(STADIUM_NAMES) * Len(with_data)
        /\ \A r \in 1..Len(comparisons_df) :
              comparisons_df[r].player_id
                  = with_data[((r - 1) \div Len(STADIUM_NAMES)) + 1]

\* C26 (as stated): compare_all_hitters_to_stadiums includes only hitters
\* with PA >= min_pa, processes them in descending PA order and, when top_n
\* is given, includes at most the top_n of them by PA; a hitter without
\* data contributes no rows and does not abort the run; the result is empty
\* when no hitter yields data.
C26_TopHittersByPlateAppearances ==
    pc = "all_done" =>
        /\ TakenByPlateAppearances
        /\ TopNGiven => Len(processing) <= top_n
        /\ RowsOfHittersWithData

\* the same for every limit that is None or positive: the part of the claim
\* that the run keeps
C26_WithPositiveLimit ==
    pc = "all_done" /\ (~TopNGiven \/ top_n > 0) =>
        /\ TakenByPlateAppearances
        /\ TopNGiven => Len(processing) <= top_n
        /\ RowsOfHittersWithData

----------------------------------------------------------------------------
(* Properties of get_stadium_selection                                     *)

\* the integer the input parses as is the number of a stadium
NumberOfAStadium(input) ==
    /\ ~IsNaN(ParseInt(input))
    /\ 1 <= ParseInt(input) /\ ParseInt(input) <= Len(STADIUM_NAMES)

\* C27: at the stadium prompt, a stadium is returned only when the latest
\* input is an integer n with 1 <= n <= number of stadiums, and then it is
\* the n-th stadium of the registry with its registry record; on quit, exit
\* or q nothing is selected and the session ends; after any other input
\* nothing is selected and the prompt is repeated.
C27_StadiumSelection ==
    [][pc = "stadium" =>
          /\ pc' = "selected" <=> NumberOfAStadium(choice')
          /\ pc' = "selected" =>
                /\ stadium_name' = STADIUM_NAMES[ParseInt(choice')]
                /\ stadium_info' = STADIUM_DATA[STADIUM_NAMES[ParseInt(choice')]]
          /\ choice' \in {"quit", "exit", "q"} =>
                /\ pc' = "exit"
                /\ stadium_name' = "" /\ stadium_info' = None
          /\ pc' \notin {"selected", "exit"} =>
                /\ pc' = "stadium"
                /\ stadium_name' = "" /\ stadium_info' = None]_vars

\* the third stadium of the registry has been selected
C27_Witness ==
    /\ pc = "selected"
    /\ choice = "3"
    /\ stadium_name = "Coors Field"
    /\ stadium_info = STADIUM_DATA_AT_LOAD["Coors Field"]

----------------------------------------------------------------------------
(* Bounds of the aggregation result                                        *)

\* C28: in the aggregation result of a non-empty batch
\* 0 <= expected_hr_count <= total_bip and 0 <= expected_hr_rate <= 1; when
\* events without valid hit coordinates are dropped from the home-run
\* counting, the count is at most the number of events kept and total_bip
\* still counts every event.
C28_CountAndRateBounds ==
    StatsReturned /\ Len(bip_data) > 0 =>
        /\ expected_stats # EmptyDict
        /\ 0 <= expected_stats.expected_hr_count
        /\ expected_stats.expected_hr_count <= expected_stats.total_bip
        /\ expected_stats.expected_hr_rate[2] > 0
        /\ 0 <= expected_stats.expected_hr_rate[1]
        /\ expected_stats.expected_hr_rate[1] <= expected_stats.expected_hr_rate[2]
        /\ ValidRows # {} =>
              /\ expected_stats.expected_hr_count <= Cardinality(ValidRows)
              /\ expected_stats.total_bip = Len(bip_data)

\* of a batch of two events the one without valid coordinates was dropped,
\* the other is a home run, and total_bip is two
C28_Witness ==
    /\ StatsReturned
    /\ Len(bip_data) = 2
    /\ ValidRows = {2}
    /\ expected_stats.expected_hr_count = 1
    /\ expected_stats.total_bip = 2
    /\ expected_stats.expected_hr_rate = Rat(1, 2)

----------------------------------------------------------------------------
(* Direct calls on frames of spray angles at stadiums of stated dimensions *)

FenceRows ==
    [type : {"X"}, launch_speed : {105}, launch_angle : {28},
     hit_distance_sc : {350, 432},
     spray_angle : {-45000, -15000, 0, 15000, 45000}]

\* stadium dicts that state their three dimensions
FenceStadiums ==
    {[left_field |-> 330, center_field |-> 400, right_field |-> 330],
     [left_field |-> 330, center_field |-> 330, right_field |-> 330],
     [left_field |-> 310, center_field |-> 420, right_field |-> 310],
     [left_field |-> 330, center_field |-> 400, right_field |-> 350]}

FenceInit ==
    /\ STADIUM_DATA = STADIUM_DATA_AT_LOAD
    /\ columns = ColumnsOf(FenceRows)
    /\ statcast_data \in SeqsUpTo(FenceRows, MaxRows)
    /\ stadium_info \in FenceStadiums
    /\ stadium_name = ""
    /\ choice = ""
    /\ pc = "fetch"
    /\ NoRanking
    /\ NoFlight
    /\ NoComparing
    /\ NoBatch
    /\ NotComputed

FenceSpec == FenceInit /\ [][Next]_vars

----------------------------------------------------------------------------
(* Symmetry and monotonicity of the classification fence                   *)

\* the batch with every direction mirrored left to right
Mirrored(bip) ==
    [i \in 1..Len(bip) |-> [bip[i] EXCEPT !.spray_angle = -bip[i].spray_angle]]

\* the fence distance the stadium has at a direction
FenceAt(angle, stadium) ==
    fence_distance(angle, left_field_of(stadium), center_field_of(stadium),
                   right_field_of(stadium))

\* C29: for a stadium with left_field = right_field the fence distance used
\* at direction -a equals the one used at +a for every a in [0, 45] degrees,
\* and a batch and its left-right mirror image get the same expected home
\* run count.
C29_MirrorSymmetry ==
    /\ HomeRunsReturned
    /\ Len(bip_data) > 0
    /\ left_field_of(stadium_info) = right_field_of(stadium_info)
    => /\ \A i \in 1..Len(angles) :
             Abs(angles[i]) <= 45000 =>
                 fence_distances[i] = FenceAt(-angles[i], stadium_info)
       /\ home_runs =
             calculate_expected_home_runs(Mirrored(bip_data), columns, stadium_info)

\* C29, inside 30 degrees of center field: there the fence distance used at
\* -a equals the one used at +a when left_field = right_field.
C29_SymmetricInsideThirtyDegrees ==
    /\ HomeRunsReturned
    /\ Len(bip_data) > 0
    /\ left_field_of(stadium_info) = right_field_of(stadium_info)
    => \A i \in 1..Len(angles) :
          Abs(angles[i]) < 30000 =>
              fence_distances[i] = FenceAt(-angles[i], stadium_info)

\* the stadium with one of its dimensions enlarged by ten feet
Enlarged(stadium) ==
    {("left_field" :> left_field_of(stadium) + 10) @@ stadium,
     ("center_field" :> center_field_of(stadium) + 10) @@ stadium,
     ("right_field" :> right_field_of(stadium) + 10) @@ stadium}

\* C30: for a fixed batch, enlarging one of left_field, center_field and
\* right_field while leaving the other two unchanged makes the fence
\* distance used at no direction smaller and does not increase the expected
\* home run count.
C30_MonotoneInDimensions ==
    HomeRunsReturned /\ Len(bip_data) > 0 =>
        \A larger \in Enlarged(stadium_info) :
            /\ \A i \in 1..Len(angles) :
                  fence_distances[i] <= FenceAt(angles[i], larger)
            /\ calculate_expected_home_runs(bip_data, columns, larger) <= home_runs

============================================================================
